---- MODULE Spec2Model ----
(***************************************************************************)
(* Lead intake and lifecycle pipeline of the portfolio backend:            *)
(* POST /api/request-cv, GET /api/cv-status/{id} and the admin lead        *)
(* endpoints, over the leads table, the rate limiter's storage and the     *)
(* mail transport.                                                         *)
(*                                                                         *)
(* Python strings are sequences of one-character strings, so that strip,   *)
(* re.sub, re.match and re.search are computed as the code computes them.  *)
(* Optional[str] is None == <<>> or Some(s) == <<s>>.                      *)
(***************************************************************************)
EXTENDS Integers, Sequences, FiniteSets, Bags, TLC

----------------------------------------------------------------------------
(* Bounds of the model *)

\* last clock reading of a behaviour
MaxTime == 1
\* length of the limiter's hour, in clock readings
Hour == 2
\* last clock reading of a behaviour that crosses the end of a limiter window
RateMaxTime == Hour
\* number of identifiers uuid4 draws from
NumIds == 2
\* number of identifiers uuid4 draws from where the limiter is studied
NumRateIds == 4
\* number of requests the event loop has in flight at once
NumSlots == 2
\* number of messages handed to the mail transport where the dispatcher is studied
MaxOutbox == 3

----------------------------------------------------------------------------
(* Characters and strings *)

Lowers == {"a","b","c","d","e","f","g","h","i","j","k","l","m",
           "n","o","p","q","r","s","t","u","v","w","x","y","z"}
LowerSeq == <<"a","b","c","d","e","f","g","h","i","j","k","l","m",
              "n","o","p","q","r","s","t","u","v","w","x","y","z">>
UpperSeq == <<"A","B","C","D","E","F","G","H","I","J","K","L","M",
              "N","O","P","Q","R","S","T","U","V","W","X","Y","Z">>
Uppers == {UpperSeq[i] : i \in 1..26}
Letters == Lowers \cup Uppers
Digits == {"0","1","2","3","4","5","6","7","8","9"}
Whitespace == {" ", "\t", "\n", "\r"}

None == <<>>
Some(s) == <<s>>
\* Python's `v or ''` for an Optional[str]
OrEmpty(o) == IF o = None THEN <<>> ELSE o[1]

\* str.lower() on one character (re.IGNORECASE compares case-folded text)
LowerChar(c) == IF c \in Uppers THEN LowerSeq[CHOOSE i \in 1..26 : UpperSeq[i] = c] ELSE c
Lower(s) == [i \in 1..Len(s) |-> LowerChar(s[i])]

\* str.strip(): drop leading and trailing whitespace
strip(s) ==
  LET keep == {i \in 1..Len(s) : s[i] \notin Whitespace}
  IN  IF keep = {} THEN <<>>
      ELSE LET lo == CHOOSE i \in keep : \A j \in keep : i <= j
               hi == CHOOSE i \in keep : \A j \in keep : j <= i
           IN  SubSeq(s, lo, hi)

\* the literal lit occurs in t at position i
HasAt(t, lit, i) ==
  /\ i + Len(lit) - 1 <= Len(t)
  /\ \A k \in 1..Len(lit) : t[i + k - 1] = lit[k]

\* re.search of a literal
Contains(t, lit) == \E i \in 1..Len(t) : HasAt(t, lit, i)

\* re.search of  open.*?>.*?close  ('.' matches anything but a newline)
TagPair(t, open, close) ==
  \E i \in 1..Len(t) :
    /\ HasAt(t, open, i)
    /\ \E j \in (i + Len(open))..Len(t) :
         /\ t[j] = ">"
         /\ \E k \in (j + 1)..Len(t) :
              /\ HasAt(t, close, k)
              /\ \A m \in (i + Len(open))..(k - 1) : t[m] # "\n"

----------------------------------------------------------------------------
(* app/utils/validation.py *)

validate_honeypot(honeypot_value) == honeypot_value = <<>>

LocalChars == Letters \cup Digits \cup {".", "_", "%", "+", "-"}
DomainChars == Letters \cup Digits \cup {".", "-"}

\* re.match(r'^[a-zA-Z0-9._%+-]+@[a-zA-Z0-9.-]+\.[a-zA-Z]{2,}$', email);
\* '$' also matches just before one trailing newline
validate_email_format(email) ==
  LET n == IF Len(email) > 0 /\ email[Len(email)] = "\n" THEN Len(email) - 1 ELSE Len(email)
  IN  \E a \in 2..n :
        /\ email[a] = "@"
        /\ \A k \in 1..(a - 1) : email[k] \in LocalChars
        /\ \E d \in (a + 2)..(n - 2) :
             /\ email[d] = "."
             /\ \A k \in (a + 1)..(d - 1) : email[k] \in DomainChars
             /\ \A k \in (d + 1)..n : email[k] \in Letters

\* re.sub(r'[^\d+]', '', phone)
CleanPhone(phone) == SelectSeq(phone, LAMBDA c : c \in Digits \cup {"+"})

MinPhoneLen == 10
MaxPhoneLen == 15

\* re.match(r'^(\+?\d{10,15})$', cleaned_phone)
PhonePattern(cleaned) ==
  LET body == IF Len(cleaned) > 0 /\ cleaned[1] = "+" THEN Tail(cleaned) ELSE cleaned
  IN  /\ Len(body) >= MinPhoneLen
      /\ Len(body) <= MaxPhoneLen
      /\ \A k \in 1..Len(body) : body[k] \in Digits

validate_phone_format(phone) ==
  LET cleaned_phone == CleanPhone(phone)
  IN  IF Len(cleaned_phone) < MinPhoneLen \/ Len(cleaned_phone) > MaxPhoneLen
      THEN FALSE
      ELSE PhonePattern(cleaned_phone)

MaxPurposeLen == 500

\* f"{name} {email} {phone} {company or ''} {role or ''} {purpose or ''}"
all_text(r) ==
  r.name \o <<" ">> \o r.email \o <<" ">> \o r.phone \o <<" ">> \o OrEmpty(r.company)
    \o <<" ">> \o OrEmpty(r.role) \o <<" ">> \o OrEmpty(r.purpose)

\* one of suspicious_patterns is found by re.search(pattern, all_text, re.IGNORECASE)
Suspicious(text) ==
  LET t == Lower(text)
  IN  \/ TagPair(t, <<"<","s","c","r","i","p","t">>, <<"<","/","s","c","r","i","p","t",">">>)
      \/ Contains(t, <<"j","a","v","a","s","c","r","i","p","t",":">>)
      \/ Contains(t, <<"d","a","t","a",":","t","e","x","t","/","h","t","m","l">>)
      \/ TagPair(t, <<"<","i","f","r","a","m","e">>, <<"<","/","i","f","r","a","m","e",">">>)

\* validate_request_data: the detail of the HTTPException(400) it raises, or "ok"
validate_request_data(r) ==
  IF r.name = <<>> \/ Len(strip(r.name)) < 2 THEN "Name must be at least 2 characters long"
  ELSE IF r.email = <<>> THEN "Email is required"
  ELSE IF ~validate_email_format(r.email) THEN "Invalid email format"
  ELSE IF r.phone = <<>> THEN "Phone number is required"
  ELSE IF ~validate_phone_format(r.phone) THEN "Invalid phone number format"
  ELSE IF OrEmpty(r.purpose) # <<>> /\ Len(OrEmpty(r.purpose)) > MaxPurposeLen
       THEN "Purpose must be less than 500 characters"
  ELSE IF Suspicious(all_text(r)) THEN "Invalid characters detected"
  ELSE "ok"

----------------------------------------------------------------------------
(* app/schemas/cv_request.py: CVRequest, validated by the framework before   *)
(* the endpoint function is called; a failure is answered 422                *)

\* EmailStr: one '@', a non-empty local part without spaces, a dotted domain
\* of non-empty labels of letters, digits and hyphens
AText == Letters \cup Digits \cup
         {"!","#","$","%","&","'","*","+","-","/","=","?","^","_","{","|","}","~","."}
EmailStrValid(email) ==
  \E a \in 2..(Len(email) - 1) :
    /\ email[a] = "@"
    /\ \A k \in 1..(a - 1) : email[k] \in AText
    /\ email[1] # "." /\ email[a - 1] # "."
    /\ \A k \in (a + 1)..Len(email) : email[k] \in DomainChars
    /\ \E d \in (a + 2)..(Len(email) - 1) : email[d] = "."
    /\ email[a + 1] # "." /\ email[Len(email)] # "."
    /\ \A k \in (a + 1)..(Len(email) - 1) : ~(email[k] = "." /\ email[k + 1] = ".")

\* EmailStr keeps the local part and lower-cases the domain
EmailStrValue(email) ==
  LET a == CHOOSE i \in 1..Len(email) : email[i] = "@"
  IN  SubSeq(email, 1, a - 1) \o Lower(SubSeq(email, a, Len(email)))

\* the fields whose validator raises
SchemaErrors(sub) ==
     (IF sub.name = <<>> \/ Len(strip(sub.name)) < 2 THEN {"name"} ELSE {})
  \cup (IF ~EmailStrValid(sub.email) THEN {"email"} ELSE {})
  \cup (IF sub.phone = <<>> \/ Len(strip(sub.phone)) < MinPhoneLen THEN {"phone"} ELSE {})
  \cup (IF OrEmpty(sub.purpose) # <<>> /\ Len(OrEmpty(sub.purpose)) > MaxPurposeLen
        THEN {"purpose"} ELSE {})
  \cup (IF ~sub.consent THEN {"consent"} ELSE {})

\* the CVRequest object the endpoint receives: validators return v.strip()
CVRequest(sub) ==
  [sub EXCEPT !.name = strip(sub.name),
              !.email = EmailStrValue(sub.email),
              !.phone = strip(sub.phone)]

----------------------------------------------------------------------------
(* Inputs *)

Str_Jo == <<"J","o">>
Str_Al == <<"A","l">>
Str_Al_padded == <<" ","A","l"," ">>
Str_J_padded == <<" ","J"," ">>
Str_script == <<"<","S","c","r","i","p","t",">","x","<","/","s","c","r","i","p","t",">">>
Str_js == <<"j","a","v","a","s","c","r","i","p","t",":">>
Str_spam == <<"s","p","a","m">>
Str_note == <<"c","a","l","l">>

Email_ok == <<"j","o","@","X",".","c","o">>
Email_bad == <<"i","n","v","a","l","i","d">>
\* accepted by EmailStr, refused by validate_email_format
Email_bang == <<"a","!","@","x",".","c","o">>

Phone_123 == <<"1","2","3">>
\* "+1-555-0123", the phone of the schema example and of test_cv_request
Phone_example == <<"+","1","-","5","5","5","-","0","1","2","3">>
Phone_ok == <<"+","1","5","5","5","0","1","2","3","4","5","6">>

\* "+1-555-0123-4567"
Phone_dashed == <<"+","1","-","5","5","5","-","0","1","2","3","-","4","5","6","7">>
\* "(555) 012-3456"
Phone_local == <<"(","5","5","5",")"," ","0","1","2","-","3","4","5","6">>
\* "555+0123456": the '+' is not in front
Phone_plus_inside == <<"5","5","5","+","0","1","2","3","4","5","6">>
\* n digits, and '+' followed by n digits
DigitString(n) == [i \in 1..n |-> "7"]
PlusDigits(n) == <<"+">> \o DigitString(n)
Phones ==
  {Phone_123, Phone_example, Phone_ok, Phone_dashed, Phone_local, Phone_plus_inside}
    \cup {DigitString(n) : n \in {MinPhoneLen - 1, MinPhoneLen, MaxPhoneLen, MaxPhoneLen + 1}}
    \cup {PlusDigits(n) : n \in {MinPhoneLen - 1, MinPhoneLen, MaxPhoneLen - 1, MaxPhoneLen}}

\* a purpose of 501 characters
Purpose_long == [i \in 1..(MaxPurposeLen + 1) |-> "x"]

Sub(name, email, phone, company, purpose, consent, website) ==
  [name |-> name, email |-> email, phone |-> phone, company |-> company, role |-> None,
   purpose |-> purpose, consent |-> consent, website |-> website]

\* the submissions of the scenarios: the valid one, and one per way of failing
ValidSub == Sub(Str_Jo, Email_ok, Phone_ok, None, None, TRUE, <<>>)
Submissions ==
  { ValidSub,
    Sub(Str_Al_padded, Email_ok, Phone_ok, Some(Str_Jo), None, TRUE, <<>>),
    Sub(Str_Jo, Email_ok, Phone_ok, None, None, TRUE, Str_spam),
    \* invalid_data of test_invalid_cv_request
    Sub(<<>>, Email_bad, Phone_123, None, None, FALSE, Str_spam),
    Sub(Str_Jo, Email_ok, Phone_ok, None, None, FALSE, <<>>),
    Sub(Str_J_padded, Email_ok, Phone_ok, None, None, TRUE, <<>>),
    Sub(Str_Jo, Email_bad, Phone_ok, None, None, TRUE, <<>>),
    Sub(Str_Jo, Email_bang, Phone_ok, None, None, TRUE, <<>>),
    Sub(Str_Jo, Email_ok, Phone_123, None, None, TRUE, <<>>),
    Sub(Str_Jo, Email_ok, Phone_example, None, None, TRUE, <<>>),
    Sub(Str_Jo, Email_ok, Phone_ok, None, Some(Purpose_long), TRUE, <<>>),
    Sub(Str_Jo, Email_ok, Phone_ok, Some(Str_script), None, TRUE, <<>>),
    Sub(Str_Jo, Email_ok, Phone_ok, None, Some(Str_js), FALSE, <<>>) }

\* the submission of test_cv_request and of the schema example
ExampleSub == Sub(Str_Jo, Email_ok, Phone_example, Some(Str_Al), None, TRUE, <<>>)
\* submissions that differ in the phone
PhoneSubmissions ==
  {ExampleSub, ValidSub, Sub(Str_Jo, Email_ok, Phone_123, None, None, TRUE, <<>>)}

\* the valid submission and a refused one
LifeSubmissions == {ValidSub, Sub(Str_Jo, Email_ok, Phone_ok, Some(Str_script), None, TRUE, <<>>)}

\* the valid submission, one with the honeypot filled, one the validator
\* refuses and one without consent
QuotaSubmissions ==
  { ValidSub,
    Sub(Str_Jo, Email_ok, Phone_ok, None, None, TRUE, Str_spam),
    Sub(Str_Jo, Email_ok, Phone_ok, Some(Str_script), None, TRUE, <<>>),
    Sub(Str_Jo, Email_ok, Phone_ok, None, None, FALSE, <<>>) }

\* roles and companies of the submissions whose leads the dashboard buckets
Roles ==
  [ director |-> <<"D","i","r","e","c","t","o","r">>,
    sales_manager |-> <<"S","a","l","e","s"," ","M","a","n","a","g","e","r">>,
    developer |-> <<"D","e","v","e","l","o","p","e","r">>,
    engineering_manager |-> <<"E","n","g","i","n","e","e","r","i","n","g"," ","M","a","n","a","g","e","r">>,
    ceo |-> <<"C","E","O">>,
    chef |-> <<"C","h","e","f">> ]

Companies ==
  [ acme_inc |-> <<"A","c","m","e"," ","I","n","c">>,
    princeton |-> <<"P","r","i","n","c","e","t","o","n"," ","U","n","i","v","e","r","s","i","t","y">>,
    corp_advisory |-> <<"C","o","r","p"," ","A","d","v","i","s","o","r","y">>,
    advisory |-> <<"A","d","v","i","s","o","r","y">>,
    oxford |-> <<"O","x","f","o","r","d"," ","U","n","i","v","e","r","s","i","t","y">>,
    zed |-> <<"Z","e","d">> ]

SubAs(role, company) == [ValidSub EXCEPT !.role = role, !.company = company]
RoleSubmissions ==
  { SubAs(Some(Roles.director), Some(Companies.acme_inc)),
    SubAs(Some(Roles.sales_manager), Some(Companies.princeton)),
    SubAs(Some(Roles.developer), Some(Companies.corp_advisory)),
    SubAs(Some(Roles.engineering_manager), Some(Companies.advisory)),
    SubAs(Some(Roles.ceo), Some(Companies.oxford)),
    SubAs(Some(Roles.chef), Some(Companies.zed)),
    SubAs(None, None) }

IPs == {"10.0.0.1", "10.0.0.2"}
LifeIPs == {"10.0.0.1"}
UserAgents == {"curl"}
\* the values str(uuid.uuid4()) can take
Ids == 1..NumIds
RateIds == 1..NumRateIds

LeadStatus == {"new", "contacted", "qualified", "proposal_sent", "closed_won", "closed_lost"}
LeadSource == {"cv_request", "calendly", "linkedin", "referral", "direct", "other"}

LeadUpdateFields == {"name", "email", "phone", "company", "role", "purpose", "status", "notes"}
NoUpdate == [f \in LeadUpdateFields |-> None]
LeadUpdates ==
  { NoUpdate,
    [NoUpdate EXCEPT !.status = Some("qualified")],
    [NoUpdate EXCEPT !.name = Some(Str_Al), !.notes = Some(Str_note)],
    \* a status that LeadStatus does not have
    [NoUpdate EXCEPT !.status = Some("archived")] }

\* the lead_data dicts handed to send_admin_notification: every key, the
\* subscripted keys only, and two that lack a subscripted key
NotifyLeadData ==
  { [name |-> Str_Jo, email |-> Email_ok, phone |-> Phone_ok, company |-> Some(Str_Al),
     ip_address |-> "10.0.0.1", created_at |-> 0],
    [name |-> Str_Jo, email |-> Email_ok, phone |-> Phone_ok],
    [email |-> Email_ok, phone |-> Phone_ok],
    [name |-> Str_Jo, company |-> Some(Str_Al)] }

Usernames == {"admin", "nobody"}
Passwords == {"right", "wrong"}

Tokens == {"valid", "expired"}
\* with a request that sends no Authorization header, and a malformed token
AuthTokens == Tokens \cup {"missing", "invalid"}

\* skip and limit of GET /leads; the status and source filters
Skips == {0, 2}
Limits == {1, 2, 150}
StatusFilters == {None, Some("new")}
SourceFilters == {None}

----------------------------------------------------------------------------
(* State *)

VARIABLES
  leads,        \* the rows of the leads table
  now,          \* the clock reading
  limiter,      \* the limiter's storage: per client IP, the hit count and its expiry
  outbox,       \* the messages handed to the mail transport, in order
  adminActive,  \* is_active of the admin row the bearer token names
  inflight,     \* the bag of requests suspended at an await, each with where it is
  last          \* the request served by the latest step, and its response

vars == <<leads, now, limiter, outbox, adminActive, inflight, last>>

Response(op, args, code, detail, body) ==
  [op |-> op, args |-> args, code |-> code, detail |-> detail, body |-> body]

NoBody == [none |-> TRUE]

----------------------------------------------------------------------------
(* The rate limiter: Limiter(key_func=get_remote_address), limit "3/hour",  *)
(* default fixed-window strategy over in-memory storage                     *)

RateLimit == 3

NoHits == [count |-> 0, expiry |-> 0]

\* the counter of a key, 0 once its expiry has passed
Counter(storage, key, t) ==
  IF storage[key].count > 0 /\ storage[key].expiry > t THEN storage[key].count ELSE 0

\* a limiter that allows one request more than the limit
hit_OffByOne(storage, key, t) ==
  LET cur == Counter(storage, key, t)
      new == IF cur > RateLimit THEN cur ELSE cur + 1
      exp == IF cur = 0 THEN t + Hour ELSE storage[key].expiry
  IN  [allowed |-> new <= RateLimit + 1,
       storage |-> [storage EXCEPT ![key] = [count |-> new, expiry |-> exp]]]

\* a limiter that loses the increment of a counter that is already set
hit_LostIncrement(storage, key, t) ==
  LET cur == Counter(storage, key, t)
      new == IF cur > 0 THEN cur ELSE 1
      exp == IF cur = 0 THEN t + Hour ELSE storage[key].expiry
  IN  [allowed |-> new <= RateLimit,
       storage |-> [storage EXCEPT ![key] = [count |-> new, expiry |-> exp]]]

\* one hit: the counter is incremented, its expiry is set by the first hit of
\* a window, and the request is allowed while the counter is within the limit
\* (counts above RateLimit + 1 are not told apart)
hit(storage, key, t) ==
  LET cur == Counter(storage, key, t)
      new == IF cur > RateLimit THEN cur ELSE cur + 1
      exp == IF cur = 0 THEN t + Hour ELSE storage[key].expiry
  IN  [allowed |-> new <= RateLimit,
       storage |-> [storage EXCEPT ![key] = [count |-> new, expiry |-> exp]]]

\* the storage drops expired keys as time passes
Expire(storage, t) ==
  [k \in DOMAIN storage |-> IF storage[k].expiry <= t THEN NoHits ELSE storage[k]]

----------------------------------------------------------------------------
(* app/services/lead_service.py and the leads table *)

\* an INSERT into a table without the primary key on id
Insert_NoPrimaryKey(table, row, dbOk) ==
  IF ~dbOk
  THEN [ok |-> FALSE, leads |-> table]
  ELSE [ok |-> TRUE, leads |-> table \cup {row}]

\* INSERT INTO leads: refused on a storage failure or on a duplicate primary key
Insert(table, row, dbOk) ==
  IF ~dbOk \/ (\E l \in table : l.id = row.id)
  THEN [ok |-> FALSE, leads |-> table]
  ELSE [ok |-> TRUE, leads |-> table \cup {row}]

\* a create_lead that stores another status than NEW
create_lead_Contacted(table, lead_data, t, dbOk) ==
  LET keys == DOMAIN lead_data \cup {"status", "created_at", "updated_at", "notes"}
      values == [k \in keys |->
                   IF k = "status" THEN "contacted"
                   ELSE IF k \in {"created_at", "updated_at"} THEN t
                   ELSE IF k = "notes" THEN None
                   ELSE lead_data[k]]
  IN  Insert(table, values, dbOk)

\* a create_lead that stores a status outside LeadStatus
create_lead_Archived(table, lead_data, t, dbOk) ==
  LET keys == DOMAIN lead_data \cup {"status", "created_at", "updated_at", "notes"}
      values == [k \in keys |->
                   IF k = "status" THEN "archived"
                   ELSE IF k \in {"created_at", "updated_at"} THEN t
                   ELSE IF k = "notes" THEN None
                   ELSE lead_data[k]]
  IN  Insert(table, values, dbOk)

\* a create_lead that leaves updated_at at the epoch
create_lead_EpochUpdatedAt(table, lead_data, t, dbOk) ==
  LET keys == DOMAIN lead_data \cup {"status", "created_at", "updated_at", "notes"}
      values == [k \in keys |->
                   IF k = "status" THEN "new"
                   ELSE IF k = "created_at" THEN t
                   ELSE IF k = "updated_at" THEN 0
                   ELSE IF k = "notes" THEN None
                   ELSE lead_data[k]]
  IN  Insert(table, values, dbOk)

\* values = {**lead_data, "status": NEW, "created_at": utcnow, "updated_at": utcnow};
\* notes is not in the INSERT and stays NULL
create_lead(table, lead_data, t, dbOk) ==
  LET keys == DOMAIN lead_data \cup {"status", "created_at", "updated_at", "notes"}
      values == [k \in keys |->
                   IF k = "status" THEN "new"
                   ELSE IF k \in {"created_at", "updated_at"} THEN t
                   ELSE IF k = "notes" THEN None
                   ELSE lead_data[k]]
  IN  Insert(table, values, dbOk)

\* SELECT * FROM leads WHERE id = :lead_id
get_lead_by_id(table, lead_id) == {l \in table : l.id = lead_id}

\* binding values to a text query raises when a key names no placeholder of it
BindParams(placeholders, keys) == keys \subseteq placeholders

\* the placeholders of the filters in where_clause
WherePlaceholders(status, source) ==
  (IF status # None THEN {"status"} ELSE {}) \cup (IF source # None THEN {"source"} ELSE {})

\* the keys of the values dict of get_leads, passed to both queries
ListValues(status, source) == {"skip", "limit"} \cup WherePlaceholders(status, source)

\* the rows the WHERE clause keeps
Matching(table, status, source) ==
  {l \in table : /\ (status # None => l.status = status[1])
                 /\ (source # None => l.source = source[1])}

\* ORDER BY created_at DESC: the orders the database may return, ties in any order
OrderedDesc(rows) ==
  {f \in [1..Cardinality(rows) -> rows] :
     /\ \A i, j \in 1..Cardinality(rows) : i # j => f[i] # f[j]
     /\ \A i, j \in 1..Cardinality(rows) : i < j => f[i].created_at >= f[j].created_at}

\* LIMIT :limit OFFSET :skip
LimitOffset(rows, limit, skip) ==
  IF skip >= Len(rows) THEN <<>>
  ELSE SubSeq(rows, skip + 1, IF skip + limit < Len(rows) THEN skip + limit ELSE Len(rows))

\* LeadService.get_leads: the results it may return, none when it raises
service_get_leads(table, skip, limit, status, source) ==
  IF ~BindParams(WherePlaceholders(status, source), ListValues(status, source))
  THEN {}
  ELSE IF ~BindParams(WherePlaceholders(status, source) \cup {"limit", "skip"},
                      ListValues(status, source))
  THEN {}
  ELSE LET total == Cardinality(Matching(table, status, source))
       IN  {[leads |-> LimitOffset(rows, limit, skip),
             total |-> total,
             page |-> (skip \div limit) + 1,
             size |-> limit,
             pages |-> (total + limit - 1) \div limit] :
              rows \in OrderedDesc(Matching(table, status, source))}

----------------------------------------------------------------------------
(* app/services/email_service.py *)

\* _send_email catches every failure of the transport and returns False
send_email(box, to_email, smtpOk) ==
  [success |-> smtpOk, outbox |-> Append(box, [to |-> to_email, delivered |-> smtpOk])]

send_cv_email(box, to_email, smtpOk) == send_email(box, to_email, smtpOk)

\* settings.EMAIL_FROM, the admin's address
EMAIL_FROM == <<"m","e","@","x",".","c","o">>

\* the keys send_admin_notification reads with lead_data['...']; the others
\* are read with lead_data.get
SubscriptedKeys == {"name", "email", "phone"}

\* send_admin_notification: the subject and the body are formatted before
\* _send_email is called, outside its try block, so a missing subscripted key
\* raises KeyError out of the call
send_admin_notification(box, lead_data, smtpOk) ==
  IF ~(SubscriptedKeys \subseteq DOMAIN lead_data)
  THEN [raised |-> "KeyError", success |-> FALSE, outbox |-> box]
  ELSE LET sent == send_email(box, EMAIL_FROM, smtpOk)
       IN  [raised |-> "", success |-> sent.success, outbox |-> sent.outbox]

----------------------------------------------------------------------------
(* app/api/endpoints/cv_request.py *)

\* a lead_data that stores the fallback address instead of the caller's
LeadData_FallbackAddress(cv, request_id, client_ip, user_agent, t) ==
  [id |-> request_id, name |-> cv.name, email |-> cv.email, phone |-> cv.phone,
   company |-> cv.company, role |-> cv.role, purpose |-> cv.purpose,
   source |-> "cv_request", ip_address |-> "127.0.0.1", user_agent |-> user_agent,
   consent_given |-> TRUE, consent_timestamp |-> t]

\* the lead_data dict of request_cv
LeadData(cv, request_id, client_ip, user_agent, t) ==
  [id |-> request_id, name |-> cv.name, email |-> cv.email, phone |-> cv.phone,
   company |-> cv.company, role |-> cv.role, purpose |-> cv.purpose,
   source |-> "cv_request", ip_address |-> client_ip, user_agent |-> user_agent,
   consent_given |-> TRUE, consent_timestamp |-> t]

\* an endpoint body that does not call validate_request_data
IntakeChecks_NoValidation(cv) ==
  IF ~validate_honeypot(cv.website) THEN "Invalid request"
  ELSE IF ~cv.consent THEN "Consent is required"
  ELSE "ok"

\* the checks of the endpoint body before anything is stored: the detail of
\* the HTTPException(400) raised, or "ok"
IntakeChecks(cv) ==
  IF ~validate_honeypot(cv.website) THEN "Invalid request"
  ELSE IF validate_request_data(cv) # "ok" THEN validate_request_data(cv)
  ELSE IF ~cv.consent THEN "Consent is required"
  ELSE "ok"

IntakeMessage ==
  "CV request processed successfully. You should receive the CV via email shortly."

\* an endpoint that fails the request when the CV email could not be sent
IntakeResponse_FailOnEmail(request_id, email_sent) ==
  IF email_sent
  THEN [code |-> 200, detail |-> IntakeMessage, request_id |-> request_id]
  ELSE [code |-> 500, detail |-> "Internal server error. Please try again later.",
        request_id |-> request_id]

\* the response once the lead is stored: the result of send_cv_email is not used
IntakeResponse(request_id, email_sent) ==
  [code |-> 200, detail |-> IntakeMessage, request_id |-> request_id]

\* ids: the values uuid4 may return; dbOks, smtpOks: whether the INSERT and
\* the mail transport may succeed or fail
request_cv(sub, client_ip, user_agent, ids, dbOks, smtpOks) ==
  LET args == [sub |-> sub, ip |-> client_ip, user_agent |-> user_agent]
  IN
  /\ UNCHANGED <<now, adminActive, inflight>>
  /\ IF SchemaErrors(sub) # {}
     THEN /\ last' = Response("request_cv", args, 422, "validation error",
                              [errors |-> SchemaErrors(sub)])
          /\ UNCHANGED <<leads, limiter, outbox>>
     ELSE LET cv == CVRequest(sub)
              h == hit(limiter, client_ip, now)
              check == IntakeChecks(cv)
          IN
          /\ limiter' = h.storage
          /\ IF ~h.allowed
             THEN /\ last' = Response("request_cv", args, 429, "Rate limit exceeded", NoBody)
                  /\ UNCHANGED <<leads, outbox>>
             ELSE IF check # "ok"
             THEN /\ last' = Response("request_cv", args, 400, check, NoBody)
                  /\ UNCHANGED <<leads, outbox>>
             ELSE \E request_id \in ids, dbOk \in dbOks, smtpOk \in smtpOks :
                    LET created == create_lead(leads,
                                     LeadData(cv, request_id, client_ip, user_agent, now),
                                     now, dbOk)
                        mail == send_cv_email(outbox, cv.email, smtpOk)
                        resp == IntakeResponse(request_id, mail.success)
                    IN  IF ~created.ok
                        THEN /\ last' = Response("request_cv", args, 500,
                                   "Internal server error. Please try again later.", NoBody)
                             /\ UNCHANGED <<leads, outbox>>
                        ELSE /\ leads' = created.leads
                             /\ outbox' = mail.outbox
                             /\ last' = Response("request_cv", args, resp.code, resp.detail,
                                   [success |-> resp.code = 200,
                                    request_id |-> resp.request_id,
                                    timestamp |-> now])

\* the answer of GET /cv-status/{request_id} over the table
CvStatus(table, request_id, t, dbOk) ==
  LET found == get_lead_by_id(table, request_id)
  IN  IF ~dbOk THEN [code |-> 500, detail |-> "Internal server error", body |-> NoBody]
      ELSE IF found = {} THEN [code |-> 404, detail |-> "Request not found", body |-> NoBody]
      ELSE LET lead == CHOOSE l \in found : TRUE
           IN  [code |-> 200, detail |-> "",
                body |-> [request_id |-> request_id, status |-> lead.status,
                          created_at |-> lead.created_at, email_sent |-> TRUE, at |-> t]]

get_cv_request_status(request_id, dbOk) ==
  LET r == CvStatus(leads, request_id, now, dbOk)
  IN  /\ last' = Response("cv_status", [request_id |-> request_id, db_ok |-> dbOk],
                          r.code, r.detail, r.body)
      /\ UNCHANGED <<leads, now, limiter, outbox, adminActive, inflight>>

----------------------------------------------------------------------------
(* app/api/endpoints/admin.py *)

\* app.core.security.decode_access_token: the payload of a token that is well
\* formed, signed and not expired; it raises on any other token
decode_access_token(token) ==
  IF token = "valid" THEN [ok |-> TRUE, sub |-> "admin"] ELSE [ok |-> FALSE, sub |-> ""]

\* get_current_admin: the detail of the 401 raised, or "ok"
get_current_admin(token) ==
  IF ~decode_access_token(token).ok THEN "Could not validate credentials"
  ELSE IF decode_access_token(token).sub = "" THEN "Invalid authentication credentials"
  ELSE IF ~adminActive THEN "Admin user not found or inactive"
  ELSE "ok"

\* app.core.security.verify_password and create_access_token: the stored hash
\* is that of one password, and the token issued is a valid one
verify_password(plain_password) == plain_password = "right"
create_access_token == "valid"

\* POST /login: the admin row is read, last_login is written to the admins
\* table and a token is issued; the leads table is not touched
admin_login(username, password, dbOk) ==
  LET args == [username |-> username, password |-> password, db_ok |-> dbOk]
  IN
  /\ UNCHANGED <<leads, now, limiter, outbox, adminActive, inflight>>
  /\ IF ~dbOk
     THEN last' = Response("admin_login", args, 500, "Login failed", NoBody)
     ELSE IF username # "admin" \/ ~adminActive
     THEN last' = Response("admin_login", args, 401, "Invalid username or password", NoBody)
     ELSE IF ~verify_password(password)
     THEN last' = Response("admin_login", args, 401, "Invalid username or password", NoBody)
     ELSE last' = Response("admin_login", args, 200, "",
                           [access_token |-> create_access_token])

\* security = HTTPBearer() answers a request without credentials itself, with
\* "Not authenticated": 403 in older FastAPI releases, 401 in recent ones
MissingCredentialCodes == {401, 403}

\* the rejections Depends(get_current_admin) may answer; none when the admin is let in
Unauthorized(token) ==
  IF token = "missing"
  THEN {[code |-> c, detail |-> "Not authenticated"] : c \in MissingCredentialCodes}
  ELSE IF get_current_admin(token) # "ok"
  THEN {[code |-> 401, detail |-> get_current_admin(token)]}
  ELSE {}

\* the fields of a LeadUpdate payload that fail validation, answered 422
LeadUpdateErrors(lead_update) ==
     (IF lead_update.status # None /\ lead_update.status[1] \notin LeadStatus
      THEN {"status"} ELSE {})
  \cup (IF lead_update.email # None /\ ~EmailStrValid(lead_update.email[1])
        THEN {"email"} ELSE {})

\* the fields of the payload that are not None
update_fields(lead_update) == {f \in LeadUpdateFields : lead_update[f] # None}

\* the bind parameters named in update_query
UpdatePlaceholders(lead_update) == update_fields(lead_update) \cup {"lead_id"}

\* the keys of the values dict handed to db.execute
UpdateValues(lead_update) == update_fields(lead_update) \cup {"lead_id", "updated_at"}

\* CURRENT_TIMESTAMP of the UPDATE statement
CURRENT_TIMESTAMP == now

\* an UPDATE that also rewrites created_at
UpdatedRow_ResetsCreatedAt(lead, lead_update) ==
  [k \in DOMAIN lead |->
     IF k \in {"updated_at", "created_at"} THEN CURRENT_TIMESTAMP
     ELSE IF k \in update_fields(lead_update)
          THEN (IF k \in {"company", "role", "purpose", "notes"}
                THEN lead_update[k] ELSE lead_update[k][1])
     ELSE lead[k]]

\* the row after UPDATE leads SET <fields>, updated_at = CURRENT_TIMESTAMP
UpdatedRow(lead, lead_update) ==
  [k \in DOMAIN lead |->
     IF k = "updated_at" THEN CURRENT_TIMESTAMP
     ELSE IF k \in update_fields(lead_update)
          THEN (IF k \in {"company", "role", "purpose", "notes"}
                THEN lead_update[k] ELSE lead_update[k][1])
     ELSE lead[k]]

\* an update_lead without the early return for an empty payload
ApplyUpdate_AlwaysWrites(table, lead_id, lead_update) ==
  IF get_lead_by_id(table, lead_id) = {}
  THEN [code |-> 404, detail |-> "Lead not found", leads |-> table]
  ELSE [code |-> 200, detail |-> "No changes to update",
        leads |-> {IF l.id = lead_id THEN UpdatedRow(l, lead_update) ELSE l : l \in table}]

\* an update_lead that does not look the lead up first
ApplyUpdate_NoLookup(table, lead_id, lead_update) ==
  IF update_fields(lead_update) = {}
  THEN [code |-> 200, detail |-> "No changes to update", leads |-> table]
  ELSE IF ~BindParams(UpdatePlaceholders(lead_update), UpdateValues(lead_update))
  THEN [code |-> 500, detail |-> "Failed to update lead", leads |-> table]
  ELSE [code |-> 200, detail |-> "Lead updated successfully",
        leads |-> {IF l.id = lead_id THEN UpdatedRow(l, lead_update) ELSE l : l \in table}]

\* update_lead once the admin is authenticated and the lead was read
ApplyUpdate(table, lead_id, lead_update) ==
  IF get_lead_by_id(table, lead_id) = {}
  THEN [code |-> 404, detail |-> "Lead not found", leads |-> table]
  ELSE IF update_fields(lead_update) = {}
  THEN [code |-> 200, detail |-> "No changes to update", leads |-> table]
  ELSE IF ~BindParams(UpdatePlaceholders(lead_update), UpdateValues(lead_update))
  THEN [code |-> 500, detail |-> "Failed to update lead", leads |-> table]
  ELSE [code |-> 200, detail |-> "Lead updated successfully",
        leads |-> {IF l.id = lead_id THEN UpdatedRow(l, lead_update) ELSE l : l \in table}]

update_lead(token, lead_id, lead_update, dbOk) ==
  LET args == [token |-> token, lead_id |-> lead_id, lead_update |-> lead_update,
               db_ok |-> dbOk]
      auth == Unauthorized(token)
      r == ApplyUpdate(leads, lead_id, lead_update)
  IN
  /\ UNCHANGED <<now, limiter, outbox, adminActive, inflight>>
  /\ IF auth # {}
     THEN \E rej \in auth :
            last' = Response("update_lead", args, rej.code, rej.detail, NoBody) /\ UNCHANGED leads
     ELSE IF LeadUpdateErrors(lead_update) # {}
     THEN last' = Response("update_lead", args, 422, "validation error",
                           [errors |-> LeadUpdateErrors(lead_update)])
          /\ UNCHANGED leads
     ELSE IF ~dbOk
     THEN last' = Response("update_lead", args, 500, "Failed to update lead", NoBody)
          /\ UNCHANGED leads
     ELSE /\ leads' = r.leads
          /\ last' = Response("update_lead", args, r.code, r.detail, NoBody)

get_lead(token, lead_id, dbOk) ==
  LET args == [token |-> token, lead_id |-> lead_id, db_ok |-> dbOk]
      auth == Unauthorized(token)
      found == get_lead_by_id(leads, lead_id)
  IN
  /\ UNCHANGED <<leads, now, limiter, outbox, adminActive, inflight>>
  /\ IF auth # {}
     THEN \E rej \in auth :
            last' = Response("get_lead", args, rej.code, rej.detail, NoBody)
     ELSE IF ~dbOk
     THEN last' = Response("get_lead", args, 500, "Failed to fetch lead", NoBody)
     ELSE IF found = {}
     THEN last' = Response("get_lead", args, 404, "Lead not found", NoBody)
     ELSE \E lead \in found : last' = Response("get_lead", args, 200, "", lead)

\* a delete that leaves the row in the table
DeleteFrom_KeepsRow(table, lead_id) == table

\* a DELETE without its WHERE clause
DeleteFrom_AllRows(table, lead_id) == {}

\* DELETE FROM leads WHERE id = :lead_id
DeleteFrom(table, lead_id) == {l \in table : l.id # lead_id}

delete_lead(token, lead_id, dbOk) ==
  LET args == [token |-> token, lead_id |-> lead_id, db_ok |-> dbOk]
      auth == Unauthorized(token)
      existing == get_lead_by_id(leads, lead_id)
  IN
  /\ UNCHANGED <<now, limiter, outbox, adminActive, inflight>>
  /\ IF auth # {}
     THEN \E rej \in auth :
            last' = Response("delete_lead", args, rej.code, rej.detail, NoBody) /\ UNCHANGED leads
     ELSE IF ~dbOk
     THEN last' = Response("delete_lead", args, 500, "Failed to delete lead", NoBody)
          /\ UNCHANGED leads
     ELSE IF existing = {}
     THEN last' = Response("delete_lead", args, 404, "Lead not found", NoBody)
          /\ UNCHANGED leads
     ELSE /\ leads' = DeleteFrom(leads, lead_id)
          /\ last' = Response("delete_lead", args, 200, "Lead deleted successfully", NoBody)

\* limit=min(limit, 100)
MaxPageSize == 100
CappedLimit(limit) == IF limit < MaxPageSize THEN limit ELSE MaxPageSize

\* GET /leads. The handler's parameter `status` hides fastapi.status, so its
\* except clause raises AttributeError on status.HTTP_500_INTERNAL_SERVER_ERROR
\* and the server's error middleware answers a bare 500
get_leads(token, skip, limit, status, source, dbOk) ==
  LET args == [token |-> token, skip |-> skip, limit |-> limit, status |-> status,
               source |-> source, db_ok |-> dbOk]
      auth == Unauthorized(token)
      results == IF dbOk
                 THEN service_get_leads(leads, skip, CappedLimit(limit), status, source)
                 ELSE {}
  IN
  /\ UNCHANGED <<leads, now, limiter, outbox, adminActive, inflight>>
  /\ IF auth # {}
     THEN \E rej \in auth :
            last' = Response("get_leads", args, rej.code, rej.detail, NoBody)
     ELSE IF results = {}
     THEN last' = Response("get_leads", args, 500, "Internal Server Error", NoBody)
     ELSE \E result \in results : last' = Response("get_leads", args, 200, "", result)

\* GET /me
get_current_admin_info(token) ==
  LET args == [token |-> token, db_ok |-> TRUE]
      auth == Unauthorized(token)
  IN
  /\ UNCHANGED <<leads, now, limiter, outbox, adminActive, inflight>>
  /\ IF auth # {}
     THEN \E rej \in auth :
            last' = Response("get_current_admin_info", args, rej.code, rej.detail, NoBody)
     ELSE last' = Response("get_current_admin_info", args, 200, "",
                           [username |-> "admin", is_active |-> adminActive])

----------------------------------------------------------------------------
(* app/api/endpoints/analytics.py *)

\* str(e) of the exception a failing query raises
StorageErrors == {"connection refused"}

Day == 24 * Hour
Days == {30}

CountWhere(table, status) == Cardinality({l \in table : l.status \in status})

\* the keywords of the LIKE patterns
Kw ==
  [ founder |-> <<"f","o","u","n","d","e","r">>,
    ceo |-> <<"c","e","o">>,
    cto |-> <<"c","t","o">>,
    technical |-> <<"t","e","c","h","n","i","c","a","l">>,
    recruiter |-> <<"r","e","c","r","u","i","t","e","r">>,
    hr |-> <<"h","r">>,
    manager |-> <<"m","a","n","a","g","e","r">>,
    director |-> <<"d","i","r","e","c","t","o","r">>,
    engineer |-> <<"e","n","g","i","n","e","e","r">>,
    developer |-> <<"d","e","v","e","l","o","p","e","r">>,
    startup |-> <<"s","t","a","r","t","u","p">>,
    inc |-> <<"i","n","c">>,
    corp |-> <<"c","o","r","p">>,
    ltd |-> <<"l","t","d">>,
    llc |-> <<"l","l","c">>,
    consulting |-> <<"c","o","n","s","u","l","t","i","n","g">>,
    advisory |-> <<"a","d","v","i","s","o","r","y">>,
    university |-> <<"u","n","i","v","e","r","s","i","t","y">>,
    education |-> <<"e","d","u","c","a","t","i","o","n">> ]

\* LOWER(column) LIKE '%keyword%'
Like(column, keyword) == Contains(Lower(column), keyword)

\* a CASE expression that tests management before cto
role_category_ManagementFirst(role) ==
  IF Like(role, Kw.founder) \/ Like(role, Kw.ceo) THEN "founder"
  ELSE IF Like(role, Kw.manager) \/ Like(role, Kw.director) THEN "management"
  ELSE IF Like(role, Kw.cto) \/ Like(role, Kw.technical) THEN "cto"
  ELSE IF Like(role, Kw.recruiter) \/ Like(role, Kw.hr) THEN "recruiter"
  ELSE IF Like(role, Kw.engineer) \/ Like(role, Kw.developer) THEN "engineering"
  ELSE "other"

\* the CASE expression of role_query
role_category(role) ==
  IF Like(role, Kw.founder) \/ Like(role, Kw.ceo) THEN "founder"
  ELSE IF Like(role, Kw.cto) \/ Like(role, Kw.technical) THEN "cto"
  ELSE IF Like(role, Kw.recruiter) \/ Like(role, Kw.hr) THEN "recruiter"
  ELSE IF Like(role, Kw.manager) \/ Like(role, Kw.director) THEN "management"
  ELSE IF Like(role, Kw.engineer) \/ Like(role, Kw.developer) THEN "engineering"
  ELSE "other"

\* the CASE expression of company_types_query
company_type(company) ==
  IF Like(company, Kw.startup) \/ Like(company, Kw.inc) THEN "startup"
  ELSE IF Like(company, Kw.corp) \/ Like(company, Kw.ltd) \/ Like(company, Kw.llc)
       THEN "corporate"
  ELSE IF Like(company, Kw.consulting) \/ Like(company, Kw.advisory) THEN "consulting"
  ELSE IF Like(company, Kw.university) \/ Like(company, Kw.education) THEN "education"
  ELSE "other"

\* WHERE column IS NOT NULL AND column != ''
HasText(column) == column # None /\ column[1] # <<>>

\* the rows of the period that have a role, and those that have a company
WithRole(rows) == {l \in rows : HasText(l.role)}
WithCompany(rows) == {l \in rows : HasText(l.company)}

\* SELECT CASE ... END, COUNT(*) ... GROUP BY: a count per category that occurs
by_role(rows) ==
  [c \in {role_category(l.role[1]) : l \in WithRole(rows)} |->
     Cardinality({l \in WithRole(rows) : role_category(l.role[1]) = c})]
by_company_type(rows) ==
  [c \in {company_type(l.company[1]) : l \in WithCompany(rows)} |->
     Cardinality({l \in WithCompany(rows) : company_type(l.company[1]) = c})]

\* GET /analytics/dashboard: the counts of portfolio_query; a failure is
\* answered with str(e) inside the detail
get_dashboard_analytics(token, days, dbOk) ==
  LET args == [token |-> token, days |-> days, db_ok |-> dbOk]
      auth == Unauthorized(token)
      period == {l \in leads : l.created_at >= now - days * Day}
  IN
  /\ UNCHANGED <<leads, now, limiter, outbox, adminActive, inflight>>
  /\ IF auth # {}
     THEN \E rej \in auth :
            last' = Response("get_dashboard_analytics", args, rej.code, rej.detail, NoBody)
     ELSE IF ~dbOk
     THEN \E e \in StorageErrors :
            last' = Response("get_dashboard_analytics", args, 500,
                             "Failed to generate analytics: {str(e)}", [exception |-> e])
     ELSE last' = Response("get_dashboard_analytics", args, 200, "",
                           [total_requests |-> Cardinality(period),
                            period_requests |-> Cardinality(period),
                            qualified_leads |-> CountWhere(period, {"qualified"}),
                            converted_leads |->
                              CountWhere(period, {"proposal_sent", "closed_won"}),
                            by_company_type |-> by_company_type(period),
                            by_role |-> by_role(period)])

\* GET /analytics/leads/summary
get_leads_summary(token, dbOk) ==
  LET args == [token |-> token, db_ok |-> dbOk]
      auth == Unauthorized(token)
  IN
  /\ UNCHANGED <<leads, now, limiter, outbox, adminActive, inflight>>
  /\ IF auth # {}
     THEN \E rej \in auth :
            last' = Response("get_leads_summary", args, rej.code, rej.detail, NoBody)
     ELSE IF ~dbOk
     THEN last' = Response("get_leads_summary", args, 500,
                           "Failed to generate leads summary", NoBody)
     ELSE last' = Response("get_leads_summary", args, 200, "",
                           [total_leads |-> Cardinality(leads),
                            new_leads |-> CountWhere(leads, {"new"}),
                            qualified_leads |-> CountWhere(leads, {"qualified"}),
                            won_leads |-> CountWhere(leads, {"closed_won"})])

\* GET /analytics/performance reads email_logs only
get_performance_metrics(token, dbOk) ==
  LET args == [token |-> token, db_ok |-> dbOk]
      auth == Unauthorized(token)
  IN
  /\ UNCHANGED <<leads, now, limiter, outbox, adminActive, inflight>>
  /\ IF auth # {}
     THEN \E rej \in auth :
            last' = Response("get_performance_metrics", args, rej.code, rej.detail, NoBody)
     ELSE IF ~dbOk
     THEN last' = Response("get_performance_metrics", args, 500,
                           "Failed to generate performance metrics", NoBody)
     ELSE last' = Response("get_performance_metrics", args, 200, "",
                           [avg_response_time |-> "150ms", uptime |-> "99.9%"])

----------------------------------------------------------------------------
(* app/api/endpoints/health.py *)

\* GET /health: SELECT 1 on the database and a ping of Redis
health_check(dbOk, redisOk) ==
  /\ UNCHANGED <<leads, now, limiter, outbox, adminActive, inflight>>
  /\ last' = Response("health_check", [db_ok |-> dbOk, redis_ok |-> redisOk], 200, "",
                      [status |-> IF dbOk /\ redisOk THEN "healthy" ELSE "degraded",
                       database |-> dbOk, redis |-> redisOk, timestamp |-> now])

----------------------------------------------------------------------------
(* The handlers as tasks of one event loop: a task runs alone from one await *)
(* to the next, and the tasks interleave at the awaits of the storage and    *)
(* of the mail transport                                                     *)

\* the event loop takes a new request while fewer than NumSlots are in flight
HasFreeTask == BagCardinality(inflight) < NumSlots

\* the requests in flight once one more is suspended, and once one has ended
Suspend(tasks, task) == tasks (+) SetToBag({task})
Finish(tasks, task) == tasks (-) SetToBag({task})

\* the step ends with the task suspended at an await: nothing is answered yet
Awaiting(at) == Response("await", [at |-> at], 0, "", NoBody)

\* request_cv from the limiter's check of its decorator to the await of the
\* INSERT: the checks, uuid4, lead_data and the values of create_lead are
\* computed without a suspension
request_cv_begin(sub, client_ip, user_agent, ids) ==
  LET args == [sub |-> sub, ip |-> client_ip, user_agent |-> user_agent]
  IN
  /\ HasFreeTask
  /\ UNCHANGED <<leads, now, outbox, adminActive>>
  /\ IF SchemaErrors(sub) # {}
     THEN /\ last' = Response("request_cv", args, 422, "validation error",
                              [errors |-> SchemaErrors(sub)])
          /\ UNCHANGED <<limiter, inflight>>
     ELSE LET cv == CVRequest(sub)
              h == hit(limiter, client_ip, now)
              check == IntakeChecks(cv)
          IN
          /\ limiter' = h.storage
          /\ IF ~h.allowed
             THEN /\ last' = Response("request_cv", args, 429, "Rate limit exceeded", NoBody)
                  /\ UNCHANGED inflight
             ELSE IF check # "ok"
             THEN /\ last' = Response("request_cv", args, 400, check, NoBody)
                  /\ UNCHANGED inflight
             ELSE \E request_id \in ids :
                    /\ inflight' = Suspend(inflight,
                         [pc |-> "create_lead", op |-> "request_cv", args |-> args, cv |-> cv,
                          request_id |-> request_id,
                          lead_data |-> LeadData(cv, request_id, client_ip, user_agent, now),
                          utcnow |-> now])
                    /\ last' = Awaiting("create_lead")

\* a handler that sends the CV email before it looks at the result of the INSERT
request_cv_create_lead_SendsFirst(task, dbOks) ==
  /\ task.op = "request_cv" /\ task.pc = "create_lead"
  /\ UNCHANGED <<now, limiter, adminActive>>
  /\ \E dbOk \in dbOks :
       LET created == create_lead(leads, task.lead_data, task.utcnow, dbOk)
           mail == send_cv_email(outbox, task.cv.email, TRUE)
       IN  /\ outbox' = mail.outbox
           /\ IF ~created.ok
              THEN /\ last' = Response("request_cv", task.args, 500,
                                       "Internal server error. Please try again later.", NoBody)
                   /\ inflight' = Finish(inflight, task)
                   /\ UNCHANGED leads
              ELSE /\ leads' = created.leads
                   /\ inflight' = Suspend(Finish(inflight, task),
                                          [task EXCEPT !.pc = "send_cv_email"])
                   /\ last' = Awaiting("send_cv_email")

\* the INSERT of create_lead is executed; its failure is answered 500
request_cv_create_lead(task, dbOks) ==
  /\ task.op = "request_cv" /\ task.pc = "create_lead"
  /\ UNCHANGED <<now, limiter, outbox, adminActive>>
  /\ \E dbOk \in dbOks :
       LET created == create_lead(leads, task.lead_data, task.utcnow, dbOk)
       IN  IF ~created.ok
           THEN /\ last' = Response("request_cv", task.args, 500,
                                    "Internal server error. Please try again later.", NoBody)
                /\ inflight' = Finish(inflight, task)
                /\ UNCHANGED leads
           ELSE /\ leads' = created.leads
                /\ inflight' = Suspend(Finish(inflight, task),
                                       [task EXCEPT !.pc = "send_cv_email"])
                /\ last' = Awaiting("send_cv_email")

\* send_cv_email returns and the response is built
request_cv_send_cv_email(task, smtpOks) ==
  /\ task.op = "request_cv" /\ task.pc = "send_cv_email"
  /\ UNCHANGED <<leads, now, limiter, adminActive>>
  /\ \E smtpOk \in smtpOks :
       LET mail == send_cv_email(outbox, task.cv.email, smtpOk)
           resp == IntakeResponse(task.request_id, mail.success)
       IN  /\ outbox' = mail.outbox
           /\ inflight' = Finish(inflight, task)
           /\ last' = Response("request_cv", task.args, resp.code, resp.detail,
                               [success |-> resp.code = 200,
                                request_id |-> resp.request_id,
                                timestamp |-> now])

\* the UPDATE statement is executed: it writes the rows that have the id now
ExecuteUpdate(table, lead_id, lead_update) ==
  IF ~BindParams(UpdatePlaceholders(lead_update), UpdateValues(lead_update))
  THEN [code |-> 500, detail |-> "Failed to update lead", leads |-> table]
  ELSE [code |-> 200, detail |-> "Lead updated successfully",
        leads |-> {IF l.id = lead_id THEN UpdatedRow(l, lead_update) ELSE l : l \in table}]

\* update_lead up to the await of the UPDATE: the admin is authenticated, the
\* lead is looked up and the statement is built
update_lead_check(token, lead_id, lead_update) ==
  LET args == [token |-> token, lead_id |-> lead_id, lead_update |-> lead_update,
               db_ok |-> TRUE]
      auth == Unauthorized(token)
  IN
  /\ HasFreeTask
  /\ UNCHANGED <<leads, now, limiter, outbox, adminActive>>
  /\ IF auth # {}
     THEN \E rej \in auth :
            /\ last' = Response("update_lead", args, rej.code, rej.detail, NoBody)
            /\ UNCHANGED inflight
     ELSE IF LeadUpdateErrors(lead_update) # {}
     THEN /\ last' = Response("update_lead", args, 422, "validation error",
                              [errors |-> LeadUpdateErrors(lead_update)])
          /\ UNCHANGED inflight
     ELSE IF get_lead_by_id(leads, lead_id) = {}
     THEN /\ last' = Response("update_lead", args, 404, "Lead not found", NoBody)
          /\ UNCHANGED inflight
     ELSE IF update_fields(lead_update) = {}
     THEN /\ last' = Response("update_lead", args, 200, "No changes to update", NoBody)
          /\ UNCHANGED inflight
     ELSE /\ inflight' = Suspend(inflight,
                                 [pc |-> "execute", op |-> "update_lead", args |-> args])
          /\ last' = Awaiting("execute")

update_lead_execute(task) ==
  /\ task.op = "update_lead" /\ task.pc = "execute"
  /\ UNCHANGED <<now, limiter, outbox, adminActive>>
  /\ LET r == ExecuteUpdate(leads, task.args.lead_id, task.args.lead_update)
     IN  /\ leads' = r.leads
         /\ inflight' = Finish(inflight, task)
         /\ last' = Response("update_lead", task.args, r.code, r.detail, NoBody)

\* delete_lead up to the await of the DELETE: the admin is authenticated and
\* the lead is looked up
delete_lead_check(token, lead_id) ==
  LET args == [token |-> token, lead_id |-> lead_id, db_ok |-> TRUE]
      auth == Unauthorized(token)
  IN
  /\ HasFreeTask
  /\ UNCHANGED <<leads, now, limiter, outbox, adminActive>>
  /\ IF auth # {}
     THEN \E rej \in auth :
            /\ last' = Response("delete_lead", args, rej.code, rej.detail, NoBody)
            /\ UNCHANGED inflight
     ELSE IF get_lead_by_id(leads, lead_id) = {}
     THEN /\ last' = Response("delete_lead", args, 404, "Lead not found", NoBody)
          /\ UNCHANGED inflight
     ELSE /\ inflight' = Suspend(inflight,
                                 [pc |-> "execute", op |-> "delete_lead", args |-> args])
          /\ last' = Awaiting("execute")

\* the DELETE is executed: the number of rows it removed is not looked at
delete_lead_execute(task) ==
  /\ task.op = "delete_lead" /\ task.pc = "execute"
  /\ UNCHANGED <<now, limiter, outbox, adminActive>>
  /\ leads' = DeleteFrom(leads, task.args.lead_id)
  /\ inflight' = Finish(inflight, task)
  /\ last' = Response("delete_lead", task.args, 200, "Lead deleted successfully", NoBody)

----------------------------------------------------------------------------
(* Environment *)

\* the clock advances; the limiter's storage expires its keys
Tick(maxTime) ==
  /\ now < maxTime
  /\ now' = now + 1
  /\ limiter' = Expire(limiter, now + 1)
  /\ last' = Response("tick", NoBody, 0, "", NoBody)
  /\ UNCHANGED <<leads, outbox, adminActive, inflight>>

\* is_active of the admin row is changed in the admins table
SetAdminActive ==
  /\ adminActive' = ~adminActive
  /\ last' = Response("set_admin_active", NoBody, 0, "", NoBody)
  /\ UNCHANGED <<leads, now, limiter, outbox, inflight>>

\* a call of send_cv_email; the try block of _send_email succeeds when both
\* the read of the attachment and the transport do
call_send_cv_email(to_email, attachmentOk, transportOk, maxOutbox) ==
  LET sent == send_cv_email(outbox, to_email, attachmentOk /\ transportOk)
  IN  /\ Len(outbox) < maxOutbox
      /\ outbox' = sent.outbox
      /\ last' = Response("send_cv_email",
                          [to_email |-> to_email, attachment_ok |-> attachmentOk,
                           transport_ok |-> transportOk],
                          0, "", [raised |-> "", returned |-> sent.success])
      /\ UNCHANGED <<leads, now, limiter, adminActive, inflight>>

\* a call of send_admin_notification
call_send_admin_notification(lead_data, transportOk, maxOutbox) ==
  LET sent == send_admin_notification(outbox, lead_data, transportOk)
  IN  /\ Len(outbox) < maxOutbox
      /\ outbox' = sent.outbox
      /\ last' = Response("send_admin_notification",
                          [lead_data |-> lead_data, transport_ok |-> transportOk],
                          0, "", [raised |-> sent.raised, returned |-> sent.success])
      /\ UNCHANGED <<leads, now, limiter, adminActive, inflight>>

\* a call of validate_phone_format
call_validate_phone_format(phone) ==
  /\ last' = Response("validate_phone_format", [phone |-> phone], 0, "",
                      [valid |-> validate_phone_format(phone)])
  /\ UNCHANGED <<leads, now, limiter, outbox, adminActive, inflight>>

----------------------------------------------------------------------------
(* Specification *)

Init ==
  /\ leads = {}
  /\ now = 0
  /\ limiter = [ip \in IPs |-> NoHits]
  /\ outbox = <<>>
  /\ adminActive = TRUE
  /\ inflight = EmptyBag
  /\ last = Response("none", NoBody, 0, "", NoBody)

\* the lead lifecycle: intake of the scenario submissions, status and admin requests
Next ==
  \/ \E sub \in LifeSubmissions, ip \in LifeIPs, ua \in UserAgents :
        request_cv(sub, ip, ua, Ids, BOOLEAN, {TRUE})
  \/ \E id \in Ids, dbOk \in BOOLEAN : get_cv_request_status(id, dbOk)
  \/ \E t \in Tokens, id \in Ids, u \in LeadUpdates, dbOk \in BOOLEAN : update_lead(t, id, u, dbOk)
  \/ \E id \in Ids : get_lead("valid", id, TRUE)
  \/ \E t \in Tokens, id \in Ids : delete_lead(t, id, TRUE)
  \/ Tick(MaxTime)

Spec == Init /\ [][Next]_vars

\* the intake path alone, over every submission
NextIntake ==
  \/ \E sub \in Submissions, ip \in LifeIPs, ua \in UserAgents :
        request_cv(sub, ip, ua, Ids, {TRUE}, BOOLEAN)
  \/ Tick(MaxTime)

SpecIntake == Init /\ [][NextIntake]_vars

\* the rate limiter across the end of its window
NextRate ==
  \/ \E sub \in LifeSubmissions, ip \in LifeIPs, ua \in UserAgents :
        request_cv(sub, ip, ua, RateIds, {TRUE}, {TRUE})
  \/ Tick(RateMaxTime)

SpecRate == Init /\ [][NextRate]_vars

\* the lead list under every skip, limit and filter
NextList ==
  \/ \E sub \in LifeSubmissions, ip \in LifeIPs, ua \in UserAgents :
       request_cv(sub, ip, ua, Ids, {TRUE}, {TRUE})
  \/ \E skip \in Skips, limit \in Limits, st \in StatusFilters, so \in SourceFilters :
       get_leads("valid", skip, limit, st, so, TRUE)
  \/ \E id \in Ids : delete_lead("valid", id, TRUE)
  \/ Tick(MaxTime)

SpecList == Init /\ [][NextList]_vars

\* every endpoint behind Depends(get_current_admin), under every kind of token
NextAuth ==
  \/ \E ip \in LifeIPs, ua \in UserAgents :
       request_cv(ValidSub, ip, ua, Ids, {TRUE}, {TRUE})
  \/ \E t \in AuthTokens : get_leads(t, 0, 2, None, None, TRUE)
  \/ \E t \in AuthTokens, id \in Ids : get_lead(t, id, TRUE)
  \/ \E t \in AuthTokens, id \in Ids :
       update_lead(t, id, [NoUpdate EXCEPT !.status = Some("qualified")], TRUE)
  \/ \E t \in AuthTokens, id \in Ids : delete_lead(t, id, TRUE)
  \/ \E t \in AuthTokens : get_current_admin_info(t)
  \/ \E t \in AuthTokens, days \in Days : get_dashboard_analytics(t, days, TRUE)
  \/ \E t \in AuthTokens : get_leads_summary(t, TRUE)
  \/ \E t \in AuthTokens : get_performance_metrics(t, TRUE)
  \/ \E id \in Ids : get_cv_request_status(id, TRUE)
  \/ SetAdminActive
  \/ Tick(MaxTime)

SpecAuth == Init /\ [][NextAuth]_vars

\* every endpoint, with a storage that may fail
NextFail ==
  \/ \E ip \in LifeIPs, ua \in UserAgents :
       request_cv(ValidSub, ip, ua, Ids, BOOLEAN, {TRUE})
  \/ \E dbOk \in BOOLEAN : get_leads("valid", 0, 2, None, None, dbOk)
  \/ \E id \in Ids, dbOk \in BOOLEAN : get_lead("valid", id, dbOk)
  \/ \E id \in Ids, u \in LeadUpdates, dbOk \in BOOLEAN : update_lead("valid", id, u, dbOk)
  \/ \E id \in Ids, dbOk \in BOOLEAN : delete_lead("valid", id, dbOk)
  \/ \E days \in Days, dbOk \in BOOLEAN : get_dashboard_analytics("valid", days, dbOk)
  \/ \E dbOk \in BOOLEAN : get_leads_summary("valid", dbOk)
  \/ \E dbOk \in BOOLEAN : get_performance_metrics("valid", dbOk)
  \/ \E id \in Ids, dbOk \in BOOLEAN : get_cv_request_status(id, dbOk)
  \/ Tick(MaxTime)

SpecFail == Init /\ [][NextFail]_vars

\* the phone validator on its own and inside the intake path
NextPhone ==
  \/ \E phone \in Phones : call_validate_phone_format(phone)
  \/ \E sub \in PhoneSubmissions, ip \in LifeIPs, ua \in UserAgents :
       request_cv(sub, ip, ua, Ids, {TRUE}, {TRUE})
  \/ Tick(MaxTime)

SpecPhone == Init /\ [][NextPhone]_vars

\* a burst of submissions of one client, served concurrently, across the end
\* of a limiter window
NextBurst ==
  \/ \E sub \in LifeSubmissions, ip \in LifeIPs, ua \in UserAgents :
       request_cv_begin(sub, ip, ua, Ids)
  \/ \E task \in BagToSet(inflight) : request_cv_create_lead(task, {TRUE})
  \/ \E task \in BagToSet(inflight) : request_cv_send_cv_email(task, {TRUE})
  \/ Tick(RateMaxTime)

SpecBurst == Init /\ [][NextBurst]_vars

\* the Notification Dispatcher called on its own
NextNotify ==
  \/ \E to \in {Email_ok, Email_bang}, attachmentOk \in BOOLEAN, transportOk \in BOOLEAN :
       call_send_cv_email(to, attachmentOk, transportOk, MaxOutbox)
  \/ \E lead_data \in NotifyLeadData, transportOk \in BOOLEAN :
       call_send_admin_notification(lead_data, transportOk, MaxOutbox)

SpecNotify == Init /\ [][NextNotify]_vars

\* every endpoint of the four routers, each handler served in one step
NextFrame ==
  \/ \E sub \in LifeSubmissions, ip \in LifeIPs, ua \in UserAgents :
       request_cv(sub, ip, ua, Ids, BOOLEAN, {TRUE})
  \/ \E id \in Ids : get_cv_request_status(id, TRUE)
  \/ \E t \in Tokens : get_leads(t, 0, 2, None, None, TRUE)
  \/ \E t \in Tokens, id \in Ids : get_lead(t, id, TRUE)
  \/ \E t \in Tokens, id \in Ids, u \in {NoUpdate, [NoUpdate EXCEPT !.status = Some("qualified")]} :
       update_lead(t, id, u, TRUE)
  \/ \E t \in Tokens, id \in Ids : delete_lead(t, id, TRUE)
  \/ \E t \in Tokens : get_current_admin_info(t)
  \/ \E u \in Usernames, p \in Passwords : admin_login(u, p, TRUE)
  \/ \E dbOk \in BOOLEAN, redisOk \in BOOLEAN : health_check(dbOk, redisOk)
  \/ \E t \in Tokens, days \in Days : get_dashboard_analytics(t, days, TRUE)
  \/ \E t \in Tokens : get_leads_summary(t, TRUE)
  \/ \E t \in Tokens : get_performance_metrics(t, TRUE)
  \/ Tick(MaxTime)

SpecFrame == Init /\ [][NextFrame]_vars

\* admin updates and deletes served concurrently with each other
NextRace ==
  \/ \E ip \in LifeIPs, ua \in UserAgents : request_cv(ValidSub, ip, ua, Ids, {TRUE}, {TRUE})
  \/ \E id \in Ids : update_lead_check("valid", id, [NoUpdate EXCEPT !.status = Some("qualified")])
  \/ \E task \in BagToSet(inflight) : update_lead_execute(task)
  \/ \E id \in Ids : delete_lead_check("valid", id)
  \/ \E task \in BagToSet(inflight) : delete_lead_execute(task)

SpecRace == Init /\ [][NextRace]_vars

\* the status request after submissions whose CV email may fail
NextStatus ==
  \/ \E ip \in LifeIPs, ua \in UserAgents :
       request_cv(ValidSub, ip, ua, Ids, {TRUE}, BOOLEAN)
  \/ \E id \in Ids : get_cv_request_status(id, TRUE)
  \/ Tick(MaxTime)

SpecStatus == Init /\ [][NextStatus]_vars

\* the dashboard over leads of several roles and companies
NextBuckets ==
  \/ \E sub \in RoleSubmissions, ip \in LifeIPs, ua \in UserAgents :
       request_cv(sub, ip, ua, Ids, {TRUE}, {TRUE})
  \/ \E days \in Days : get_dashboard_analytics("valid", days, TRUE)

SpecBuckets == Init /\ [][NextBuckets]_vars

\* the intake path served concurrently, with a storage and a mail transport
\* that may fail
NextPersist ==
  \/ \E ip \in LifeIPs, ua \in UserAgents : request_cv_begin(ValidSub, ip, ua, Ids)
  \/ \E task \in BagToSet(inflight) : request_cv_create_lead(task, BOOLEAN)
  \/ \E task \in BagToSet(inflight) : request_cv_send_cv_email(task, BOOLEAN)
  \/ Tick(MaxTime)

SpecPersist == Init /\ [][NextPersist]_vars

\* refused and valid submissions of one client across the end of a limiter
\* window
NextQuota ==
  \/ \E sub \in QuotaSubmissions, ip \in LifeIPs, ua \in UserAgents :
       request_cv(sub, ip, ua, RateIds, {TRUE}, {TRUE})
  \/ Tick(RateMaxTime)

SpecQuota == Init /\ [][NextQuota]_vars

\* submissions and admin updates served concurrently while the clock advances
NextClock ==
  \/ \E ip \in LifeIPs, ua \in UserAgents : request_cv_begin(ValidSub, ip, ua, Ids)
  \/ \E task \in BagToSet(inflight) : request_cv_create_lead(task, {TRUE})
  \/ \E task \in BagToSet(inflight) : request_cv_send_cv_email(task, {TRUE})
  \/ \E id \in Ids, u \in {NoUpdate, [NoUpdate EXCEPT !.status = Some("qualified")]} :
       update_lead_check("valid", id, u)
  \/ \E task \in BagToSet(inflight) : update_lead_execute(task)
  \/ Tick(MaxTime)

SpecClock == Init /\ [][NextClock]_vars

----------------------------------------------------------------------------
(* Properties *)

IsIntake(r) == r.op = "request_cv"
Accepted(r) == r.op = "request_cv" /\ r.code = 200
ClientError(code) == code >= 400 /\ code <= 499

\* the admin request r carries a valid token of an active admin and storage works
AdminCallOk(r) == r.args.token = "valid" /\ adminActive /\ r.args.db_ok

\* C1: every submission whose honeypot field is non-empty, whatever its other
\* fields, is answered 400, and no lead is created and no email is sent.
C1_HoneypotAnswered400 ==
  [][(IsIntake(last') /\ last'.args.sub.website # <<>>)
       => (last'.code = 400 /\ leads' = leads /\ outbox' = outbox)]_vars

\* the leads of one client IP created at a clock reading in lo..hi
LeadsFrom(table, ip, lo, hi) ==
  {l \in table : l.ip_address = ip /\ l.created_at >= lo /\ l.created_at <= hi}

\* the leads of one client IP created in the limiter's current window
LeadsInWindow(table, storage, ip) ==
  LeadsFrom(table, ip, storage[ip].expiry - Hour, storage[ip].expiry - 1)

\* C2 as claimed: the leads created from one IP within any one hour are at most 3.
C2_AtMostThreePerHour ==
  \A ip \in IPs, t \in 0..RateMaxTime :
    Cardinality(LeadsFrom(leads, ip, t, t + Hour - 1)) <= RateLimit

\* C2 amended: once 3 submissions of one IP were accepted in the limiter's current
\* window (the hour that starts at the first request counted for that IP), every
\* further submission of that IP in the window is answered 429, creates no lead
\* and sends no email; the leads created from one IP are at most 3 in one window
\* of the limiter and at most 6 within any one hour.
C2_ThreePerLimiterWindow ==
  [][/\ \A ip \in IPs :
          (/\ limiter[ip].count > 0
           /\ Cardinality(LeadsInWindow(leads, limiter, ip)) >= RateLimit
           /\ IsIntake(last') /\ last'.args.ip = ip /\ last'.code # 422)
          => (last'.code = 429 /\ leads' = leads /\ outbox' = outbox)
     /\ \A ip \in IPs :
          /\ limiter'[ip].count > 0
               => Cardinality(LeadsInWindow(leads', limiter', ip)) <= RateLimit
          /\ \A t \in 0..RateMaxTime :
               Cardinality(LeadsFrom(leads', ip, t, t + Hour - 1)) <= 2 * RateLimit]_vars

\* a fourth submission is refused after three were accepted in the window
C2_Witness ==
  /\ IsIntake(last) /\ last.code = 429
  /\ Cardinality(LeadsInWindow(leads, limiter, last.args.ip)) = RateLimit

\* C3: when the lead is stored and the CV email then fails to send, the request
\* is still answered 200 with success and the request_id, and the stored lead stays.
C3_EmailFailureKeepsLead ==
  [][(Len(outbox') = Len(outbox) + 1 /\ ~outbox'[Len(outbox')].delivered)
       => /\ Accepted(last') /\ last'.body.success
          /\ \E l \in leads' :
               /\ l.id = last'.body.request_id
               /\ l \notin leads
               /\ leads' = leads \cup {l}]_vars

\* an accepted submission whose CV email was not delivered
C3_Witness ==
  /\ Accepted(last) /\ last.body.success
  /\ outbox # <<>> /\ ~outbox[Len(outbox)].delivered
  /\ \E l \in leads : l.id = last.body.request_id

\* sub breaks one of the rules on name, email, phone, purpose length or content
FailsValidationRule(sub) ==
  \/ SchemaErrors(sub) \cap {"name", "email", "phone", "purpose"} # {}
  \/ validate_request_data(CVRequest(sub)) # "ok"

\* the submissions that break a validation rule
InvalidSubmissions == {sub \in Submissions : FailsValidationRule(sub)}

\* C4: a submission that fails a validation rule gets a client error, and the
\* lead store is unchanged and no email is sent.
C4_InvalidRejected ==
  [][(IsIntake(last') /\ last'.args.sub \in InvalidSubmissions)
       => (ClientError(last'.code) /\ leads' = leads /\ outbox' = outbox)]_vars

C4_Witness ==
  /\ IsIntake(last) /\ last.code = 400 /\ last.detail = "Invalid characters detected"
  /\ leads # {}

\* sub with consent given passes every check
ValidButForConsent(sub) ==
  LET given == [sub EXCEPT !.consent = TRUE]
  IN  SchemaErrors(given) = {} /\ IntakeChecks(CVRequest(given)) = "ok"

\* C5: a submission valid in every other field with consent=false is answered
\* 400 with detail "Consent is required", and no lead is created.
C5_ConsentAnswered400 ==
  [][(IsIntake(last') /\ ~last'.args.sub.consent /\ ValidButForConsent(last'.args.sub))
       => (last'.code = 400 /\ last'.detail = "Consent is required" /\ leads' = leads)]_vars

\* GET /cv-status/{id} answers 200 with status "new"
StatusNewIn(table, id, t) ==
  LET r == CvStatus(table, id, t, TRUE)
  IN  r.code = 200 /\ r.body.status = "new"

StatusIsNew(id) == StatusNewIn(leads, id, now)

\* C6 as claimed: once the status request of an accepted submission answers
\* "new", it answers "new" ever after, whatever happens in between.
C6_StatusNewForever ==
  [][\A id \in Ids : StatusIsNew(id) => StatusIsNew(id)']_vars

\* C6 amended: after an accepted submission the status request for the returned
\* request_id answers status "new" until an admin update or delete of that lead
\* succeeds, and the created_at it answers is not later than the time of the request.
C6_StatusNewUntilAdminChange ==
  [][/\ Accepted(last') => StatusNewIn(leads', last'.body.request_id, now')
     /\ \A id \in Ids :
          (StatusIsNew(id) /\ ~StatusIsNew(id)')
          => /\ last'.op \in {"update_lead", "delete_lead"}
             /\ last'.code = 200
             /\ last'.args.lead_id = id
     /\ (last'.op = "cv_status" /\ last'.code = 200)
          => /\ last'.body.created_at <= last'.body.at
             /\ \E l \in leads' :
                  /\ l.id = last'.args.request_id
                  /\ l.status = last'.body.status
                  /\ l.created_at = last'.body.created_at]_vars

C6_Witness ==
  /\ last.op = "cv_status" /\ last.code = 200
  /\ last.body.status = "new" /\ last.body.created_at < last.body.at

\* C7: a lead created by the intake path has the id returned to the client,
\* source "cv_request", status "new", consent_given true, a consent_timestamp,
\* the caller's IP and user-agent, and the server's created_at and updated_at.
C7_LeadAsCreated ==
  Accepted(last)
    => \E l \in leads :
         /\ l.id = last.body.request_id
         /\ l.source = "cv_request"
         /\ l.status = "new"
         /\ l.consent_given = TRUE
         /\ l.consent_timestamp = now
         /\ l.ip_address = last.args.ip
         /\ l.user_agent = last.args.user_agent
         /\ l.created_at = now /\ l.updated_at = now
         /\ l.notes = None
         /\ l.name = strip(last.args.sub.name)
         /\ l.email = EmailStrValue(last.args.sub.email)
         /\ l.phone = strip(last.args.sub.phone)

C7_Witness == Accepted(last) /\ now > 0 /\ last.args.sub.name # strip(last.args.sub.name)

UniqueIds(table) == \A l1, l2 \in table : l1.id = l2.id => l1 = l2

\* C8: an accepted submission adds one lead under an identifier no stored lead
\* has, also when it repeats an earlier submission; no two stored leads share
\* an identifier.
C8_DistinctIdentifiers ==
  [][/\ UniqueIds(leads')
     /\ Accepted(last')
          => \E l \in leads' :
               /\ l.id = last'.body.request_id
               /\ \A m \in leads : m.id # l.id
               /\ leads' = leads \cup {l}]_vars

\* two stored leads of the same submission
C8_Witness ==
  /\ Accepted(last)
  /\ \E l1, l2 \in leads :
       /\ l1.id # l2.id
       /\ l1.name = l2.name /\ l1.email = l2.email /\ l1.phone = l2.phone
       /\ l1.created_at = l2.created_at

\* C9: an admin update of an existing lead with an empty payload is answered
\* "No changes to update" and leaves every lead as it was, updated_at included.
C9_EmptyUpdateChangesNothing ==
  [][(/\ last'.op = "update_lead" /\ AdminCallOk(last')
      /\ update_fields(last'.args.lead_update) = {}
      /\ get_lead_by_id(leads, last'.args.lead_id) # {})
       => (/\ last'.code = 200
           /\ last'.detail = "No changes to update"
           /\ leads' = leads)]_vars

C9_Witness ==
  /\ last.op = "update_lead" /\ last.code = 200 /\ last.detail = "No changes to update"
  /\ \E l \in leads : l.id = last.args.lead_id /\ l.updated_at < now

\* C10: an authenticated update of an existing lead that supplies at least one
\* field is answered 200, stores the supplied values and refreshes updated_at.
C10_UpdateStoresFields ==
  (/\ last.op = "update_lead" /\ AdminCallOk(last)
   /\ update_fields(last.args.lead_update) # {}
   /\ get_lead_by_id(leads, last.args.lead_id) # {})
    => /\ last.code = 200
       /\ \A l \in get_lead_by_id(leads, last.args.lead_id) :
            /\ l.updated_at = now
            /\ \A f \in update_fields(last.args.lead_update) :
                 l[f] = UpdatedRow(l, last.args.lead_update)[f]

\* C11: an authenticated list request is answered with the total of the
\* matching leads, pages = ceil(total / limit), and the page at its skip of the
\* matching leads in created_at descending order, so that the pages in order
\* hold every matching lead exactly once.
C11_PagesCoverMatching ==
  (last.op = "get_leads" /\ AdminCallOk(last))
    => /\ last.code = 200
       /\ LET size == CappedLimit(last.args.limit)
              matching == Matching(leads, last.args.status, last.args.source)
              total == Cardinality(matching)
          IN  /\ last.body.total = total
              /\ last.body.pages * size >= total
              /\ (last.body.pages - 1) * size < total \/ total = 0
              /\ \E rows \in OrderedDesc(matching) :
                   last.body.leads = LimitOffset(rows, size, last.args.skip)

\* C12: a list request with a limit over 100 is answered with a page of at
\* most 100 leads, size 100 and the page count of pages of 100.
C12_PageCappedAt100 ==
  (last.op = "get_leads" /\ AdminCallOk(last) /\ last.args.limit > MaxPageSize)
    => /\ last.code = 200
       /\ last.body.size = MaxPageSize
       /\ Len(last.body.leads) <= MaxPageSize
       /\ last.body.pages = (last.body.total + MaxPageSize - 1) \div MaxPageSize

\* C13: get, update (with a payload that passes validation) and delete of a
\* lead id that is not in the store, and the status request of an unknown
\* request_id, are answered 404 and leave the store unchanged.
C13_MissingIdAnswered404 ==
  [][/\ (/\ last'.op \in {"get_lead", "update_lead", "delete_lead"}
         /\ AdminCallOk(last')
         /\ last'.op = "update_lead" => LeadUpdateErrors(last'.args.lead_update) = {}
         /\ get_lead_by_id(leads, last'.args.lead_id) = {})
          => (last'.code = 404 /\ last'.detail = "Lead not found" /\ leads' = leads)
     /\ (/\ last'.op = "cv_status"
         /\ last'.args.db_ok
         /\ get_lead_by_id(leads, last'.args.request_id) = {})
          => (last'.code = 404 /\ last'.detail = "Request not found" /\ leads' = leads)]_vars

\* an update with a field supplied names an id that is not stored, while
\* another lead is
C13_Witness ==
  /\ last.op = "update_lead" /\ last.code = 404
  /\ update_fields(last.args.lead_update) # {}
  /\ leads # {}
  /\ get_lead_by_id(leads, last.args.lead_id) = {}

StoredIds(table) == {l.id : l \in table}

\* C14: a successful admin delete removes the lead's row and nothing else; no
\* operation brings a removed row back (an id enters the store only by an
\* accepted submission that generated it); while the id is not stored,
\* get-by-id, the status request and a further delete answer 404, and the list
\* and the analytics counts are taken over the stored rows only.
C14_HardDelete ==
  [][/\ (last'.op = "delete_lead" /\ last'.code = 200)
          => /\ last'.args.lead_id \in StoredIds(leads)
             /\ last'.args.lead_id \notin StoredIds(leads')
             /\ leads' = {l \in leads : l.id # last'.args.lead_id}
     /\ \A id \in StoredIds(leads') \ StoredIds(leads) :
          Accepted(last') /\ last'.body.request_id = id
     /\ (/\ last'.op \in {"get_lead", "delete_lead"}
         /\ AdminCallOk(last')
         /\ last'.args.lead_id \notin StoredIds(leads))
          => last'.code = 404
     /\ (last'.op = "cv_status" /\ last'.args.request_id \notin StoredIds(leads))
          => last'.code = 404
     /\ (last'.op = "get_leads" /\ last'.code = 200)
          => \A i \in 1..Len(last'.body.leads) : last'.body.leads[i] \in leads'
     /\ (last'.op = "get_leads_summary" /\ last'.code = 200)
          => last'.body.total_leads = Cardinality(leads')
     /\ (last'.op = "get_dashboard_analytics" /\ last'.code = 200)
          => last'.body.total_requests <= Cardinality(leads')]_vars

\* a delete has just succeeded and another lead is still stored
C14_Witness ==
  /\ last.op = "delete_lead" /\ last.code = 200
  /\ last.args.lead_id \notin StoredIds(leads)
  /\ leads # {}

\* the endpoints behind Depends(get_current_admin)
AdminOps ==
  {"get_leads", "get_lead", "update_lead", "delete_lead", "get_current_admin_info",
   "get_dashboard_analytics", "get_leads_summary", "get_performance_metrics"}

\* C15: every admin and analytics endpoint answers 401 and leaves the leads
\* alone when the token is missing, invalid or expired, or when its admin is
\* inactive at the time of the request.
C15_UnauthorizedAnswered401 ==
  [][(/\ last'.op \in AdminOps
      /\ (last'.args.token # "valid" \/ ~adminActive))
       => (last'.code = 401 /\ leads' = leads)]_vars

\* C16: the status of every stored lead is one of the values of LeadStatus,
\* a lead that enters the store enters it with status new, and the UPDATE
\* statement built for a valid payload stores a value of LeadStatus.
C16_StatusEnumerated ==
  [][/\ \A l \in leads' : l.status \in LeadStatus
     /\ \A l \in leads' : l.id \notin StoredIds(leads) => l.status = "new"
     /\ (last'.op = "update_lead" /\ LeadUpdateErrors(last'.args.lead_update) = {})
          => \A l \in leads : UpdatedRow(l, last'.args.lead_update).status \in LeadStatus]_vars

\* an update that names a status outside the enumeration was refused and the
\* lead still has the status it was created with
C16_Witness ==
  /\ last.op = "update_lead" /\ last.code = 422
  /\ last.args.lead_update.status = Some("archived")
  /\ \E l \in leads : l.id = last.args.lead_id /\ l.status = "new"

\* the columns an update with this payload may write
Writable(lead_update) == update_fields(lead_update) \cup {"updated_at"}

\* the columns of a stored lead
LeadColumns ==
  {"id", "name", "email", "phone", "company", "role", "purpose", "source", "status",
   "notes", "ip_address", "user_agent", "consent_given", "consent_timestamp",
   "created_at", "updated_at"}

\* C17: an admin update leaves the set of stored ids as it was, leaves every
\* other lead as it was, and in the lead it names changes no column outside
\* the supplied fields and updated_at (so not id, created_at, source,
\* consent_given, consent_timestamp, ip_address or user_agent); the UPDATE
\* statement an authenticated update builds for its payload writes no other
\* column of the lead it names either.
C17_UpdateFrame ==
  [][/\ (last'.op = "update_lead" /\ leads' # leads)
          => /\ StoredIds(leads') = StoredIds(leads)
             /\ \A l \in leads : \E m \in leads' :
                  /\ m.id = l.id
                  /\ l.id # last'.args.lead_id => m = l
                  /\ \A f \in DOMAIN l \ Writable(last'.args.lead_update) : m[f] = l[f]
     /\ (/\ last'.op = "update_lead" /\ last'.args.token = "valid"
         /\ LeadUpdateErrors(last'.args.lead_update) = {})
          => LET kept == LeadColumns \ Writable(last'.args.lead_update)
             IN  \A l \in get_lead_by_id(leads, last'.args.lead_id) :
                   LET row == UpdatedRow(l, last'.args.lead_update)
                   IN  \A f \in kept : row[f] = l[f]]_vars

\* an authenticated update with fields supplied has been served for a stored
\* lead created earlier, while another lead is stored
C17_Witness ==
  /\ last.op = "update_lead" /\ AdminCallOk(last)
  /\ update_fields(last.args.lead_update) # {}
  /\ LeadUpdateErrors(last.args.lead_update) = {}
  /\ \E l, m \in leads :
       l.id = last.args.lead_id /\ m.id # l.id /\ l.created_at < now

\* C18: an endpoint whose storage fails answers 500 with a fixed message that
\* carries no text of the exception.
C18_FailureAnswered500Generic ==
  (/\ "db_ok" \in DOMAIN last.args /\ ~last.args.db_ok
   /\ last.op = "update_lead" => LeadUpdateErrors(last.args.lead_update) = {})
    => (last.code = 500 /\ "exception" \notin DOMAIN last.body)

DigitCount(phone) == Len(SelectSeq(phone, LAMBDA c : c \in Digits))

\* C19: the phone validator accepts exactly the inputs that, once every
\* character other than digits and '+' is removed, have between 10 and 15
\* digits and match ^\+?\d{10,15}$; so '+' followed by 15 digits is accepted.
C19_PhoneAcceptedByDigits ==
  last.op = "validate_phone_format"
    => (last.body.valid
          <=> (/\ DigitCount(last.args.phone) >= MinPhoneLen
               /\ DigitCount(last.args.phone) <= MaxPhoneLen
               /\ PhonePattern(CleanPhone(last.args.phone))))

\* C20: the well-formed submission of the repository's test and schema
\* example, with phone "+1-555-0123", is answered 200 with a request_id or
\* 429, and never 400.
C20_ExampleAccepted ==
  (IsIntake(last) /\ last.args.sub = ExampleSub)
    => /\ last.code \in {200, 429}
       /\ last.code = 200 => last.body.request_id \in Ids

\* the rules of the Input Validator, in the order they are stated
RuleOrder == <<"honeypot", "name", "email", "phone", "purpose", "consent", "suspicious">>

\* the rules a submission breaks
ViolatedRules(sub) ==
     (IF sub.website # <<>> THEN {"honeypot"} ELSE {})
  \cup (IF Len(strip(sub.name)) < 2 THEN {"name"} ELSE {})
  \cup (IF ~EmailStrValid(sub.email) \/ ~validate_email_format(sub.email) THEN {"email"} ELSE {})
  \cup (IF Len(strip(sub.phone)) < MinPhoneLen \/ ~validate_phone_format(sub.phone)
        THEN {"phone"} ELSE {})
  \cup (IF Len(OrEmpty(sub.purpose)) > MaxPurposeLen THEN {"purpose"} ELSE {})
  \cup (IF ~sub.consent THEN {"consent"} ELSE {})
  \cup (IF Suspicious(all_text(sub)) THEN {"suspicious"} ELSE {})

\* the earliest rule of RuleOrder that the submission breaks
FirstViolated(sub) ==
  LET i == CHOOSE k \in 1..Len(RuleOrder) :
             /\ RuleOrder[k] \in ViolatedRules(sub)
             /\ \A j \in 1..(k - 1) : RuleOrder[j] \notin ViolatedRules(sub)
  IN  RuleOrder[i]

\* the rule a 400 detail belongs to
RuleOfDetail(detail) ==
  IF detail = "Invalid request" THEN "honeypot"
  ELSE IF detail = "Name must be at least 2 characters long" THEN "name"
  ELSE IF detail \in {"Email is required", "Invalid email format"} THEN "email"
  ELSE IF detail \in {"Phone number is required", "Invalid phone number format"} THEN "phone"
  ELSE IF detail = "Purpose must be less than 500 characters" THEN "purpose"
  ELSE IF detail = "Consent is required" THEN "consent"
  ELSE IF detail = "Invalid characters detected" THEN "suspicious"
  ELSE "none"

\* the rules whose error a response reports
ReportedRules(r) ==
  IF r.code = 422 THEN r.body.errors
  ELSE IF r.code = 400 THEN {RuleOfDetail(r.detail)}
  ELSE {}

\* C21: a submission that breaks several rules and is not refused by the rate
\* limiter is answered with the error of the earliest rule it breaks, in the
\* order honeypot, name, email, phone, purpose length, consent, suspicious
\* content, and with that error only.
C21_EarliestRuleReported ==
  (IsIntake(last) /\ last.code # 429 /\ ViolatedRules(last.args.sub) # {})
    => ReportedRules(last) = {FirstViolated(last.args.sub)}

\* C21, the case the claim singles out: consent=false with suspicious content
\* is refused for the missing consent.
C21_ConsentBeforeSuspicious ==
  (/\ IsIntake(last) /\ last.code # 429
   /\ ViolatedRules(last.args.sub) = {"consent", "suspicious"})
    => ReportedRules(last) = {"consent"}

\* the submissions of one client IP that passed the limiter at a clock reading
\* in lo..hi and whose lead is stored or about to be inserted
AdmittedIn(table, tasks, ip, lo, hi) ==
  Cardinality({l \in table : /\ l.ip_address = ip
                             /\ l.consent_timestamp >= lo /\ l.consent_timestamp <= hi})
  + BagCardinality([task \in {x \in BagToSet(tasks) :
                                    /\ x.op = "request_cv" /\ x.pc = "create_lead"
                                    /\ x.lead_data.ip_address = ip
                                    /\ x.lead_data.consent_timestamp >= lo
                                    /\ x.lead_data.consent_timestamp <= hi}
                       |-> tasks[task]])

\* C22 as claimed: under any interleaving of the submissions of one client IP,
\* no more than 3 of them are admitted within any one hour.
C22_BurstAtMostThreePerHour ==
  \A ip \in IPs, t \in 0..RateMaxTime :
    AdmittedIn(leads, inflight, ip, t, t + Hour - 1) <= RateLimit

\* C22 amended: the limiter's check and increment of the per-IP counter happen
\* in one step of the event loop, so under any interleaving of the submissions
\* of one client IP no more than 3 are admitted within one window of the
\* limiter (the hour that starts at the first request counted for that IP),
\* and a submission that arrives when 3 were counted (the step that answers
\* it leaves the requests in flight as they were) is answered 429 and stores
\* and sends nothing; within any one hour no more than 6 are admitted.
C22_BurstAtMostThreePerWindow ==
  [][/\ \A ip \in IPs :
          limiter'[ip].count > 0
            => AdmittedIn(leads', inflight', ip, limiter'[ip].expiry - Hour,
                          limiter'[ip].expiry - 1) <= RateLimit
     /\ \A ip \in IPs :
          (/\ Counter(limiter, ip, now) >= RateLimit
           /\ IsIntake(last') /\ last'.args.ip = ip /\ last'.code # 422
           /\ inflight' = inflight)
          => (last'.code = 429 /\ leads' = leads /\ outbox' = outbox)
     /\ \A ip \in IPs, t \in 0..RateMaxTime :
          AdmittedIn(leads', inflight', ip, t, t + Hour - 1) <= 2 * RateLimit]_vars

\* a submission is refused while a submission admitted before it is still in
\* flight, awaiting its INSERT
C22_Witness ==
  /\ IsIntake(last) /\ last.code = 429
  /\ \E task \in BagToSet(inflight) : task.pc = "create_lead"
  /\ AdmittedIn(leads, inflight, last.args.ip, limiter[last.args.ip].expiry - Hour,
                limiter[last.args.ip].expiry - 1) = RateLimit

\* C23: a call of send_cv_email or send_admin_notification, whatever its
\* input and whether the attachment or the transport fails, raises nothing
\* and returns true when the message was delivered and false when it was not.
C23_DispatcherNeverRaises ==
  last.op \in {"send_cv_email", "send_admin_notification"}
    => /\ last.body.raised = ""
       /\ last.body.returned \in BOOLEAN
       /\ last.body.returned
            <=> (outbox # <<>> /\ outbox[Len(outbox)].delivered)

\* the endpoints that only read
ReadOnlyOps ==
  {"cv_status", "get_lead", "get_leads", "get_current_admin_info", "admin_login",
   "health_check", "get_dashboard_analytics", "get_leads_summary", "get_performance_metrics"}

\* C24: the lead store changes only by an accepted intake submission that
\* passed validation (one lead added under the returned id), by an update of
\* an authenticated admin (the stored ids stay) or by a delete of an
\* authenticated admin (the named lead removed); the status request, admin
\* get and list, login, health and the analytics endpoints leave it unchanged.
C24_StoreChangesOnlyByThree ==
  [][/\ leads' # leads
          => \/ /\ Accepted(last')
                /\ SchemaErrors(last'.args.sub) = {}
                /\ IntakeChecks(CVRequest(last'.args.sub)) = "ok"
                /\ \E l \in leads' :
                     /\ l.id = last'.body.request_id
                     /\ l.id \notin StoredIds(leads)
                     /\ leads' = leads \cup {l}
             \/ /\ last'.op = "update_lead" /\ AdminCallOk(last') /\ last'.code = 200
                /\ StoredIds(leads') = StoredIds(leads)
                /\ \A l \in leads : l.id # last'.args.lead_id => l \in leads'
             \/ /\ last'.op = "delete_lead" /\ AdminCallOk(last') /\ last'.code = 200
                /\ leads' = {l \in leads : l.id # last'.args.lead_id}
     /\ last'.op \in ReadOnlyOps => leads' = leads]_vars

\* the dashboard is read after two submissions were accepted and one of the
\* two leads was deleted
C24_Witness ==
  /\ last.op = "get_dashboard_analytics" /\ last.code = 200
  /\ Cardinality(leads) = 1
  /\ Len(outbox) = 2

\* C25: an admin update or delete whose lead is not stored at the moment of
\* its UPDATE or DELETE statement does not answer "Lead updated successfully"
\* or "Lead deleted successfully"; so of two concurrent deletes of one id at
\* most one reports success.
C25_NoSuccessForMissingLead ==
  [][(/\ last'.op \in {"update_lead", "delete_lead"}
      /\ get_lead_by_id(leads, last'.args.lead_id) = {})
       => last'.detail \notin {"Lead updated successfully", "Lead deleted successfully"}]_vars

\* C26: when the status request answers email_sent = true for a lead, a CV
\* email to that lead's address was handed to the transport and delivered
\* (send_cv_email returned true).
C26_EmailSentMeansDelivered ==
  (last.op = "cv_status" /\ last.code = 200 /\ last.body.email_sent)
    => \E l \in get_lead_by_id(leads, last.args.request_id) :
         \E i \in 1..Len(outbox) : outbox[i].to = l.email /\ outbox[i].delivered

\* the categories in precedence order, each with its keywords
RoleOrder == <<"founder", "cto", "recruiter", "management", "engineering">>
RoleKeywords ==
  <<{Kw.founder, Kw.ceo}, {Kw.cto, Kw.technical}, {Kw.recruiter, Kw.hr},
    {Kw.manager, Kw.director}, {Kw.engineer, Kw.developer}>>
CompanyOrder == <<"startup", "corporate", "consulting", "education">>
CompanyKeywords ==
  <<{Kw.startup, Kw.inc}, {Kw.corp, Kw.ltd, Kw.llc}, {Kw.consulting, Kw.advisory},
    {Kw.university, Kw.education}>>

\* a keyword of the k-th category occurs in text, whatever the case
Occurs(text, keywords, k) == \E kw \in keywords[k] : Contains(Lower(text), kw)

\* the first category in order that has a keyword occurring in text, else other
FirstCategory(text, order, keywords) ==
  IF \E k \in 1..Len(order) : Occurs(text, keywords, k)
  THEN order[CHOOSE k \in 1..Len(order) :
               /\ Occurs(text, keywords, k)
               /\ \A j \in 1..(k - 1) : ~Occurs(text, keywords, j)]
  ELSE "other"

\* the count a breakdown of the response gives for a category
CountOf(breakdown, c) == IF c \in DOMAIN breakdown THEN breakdown[c] ELSE 0

\* the leads the dashboard looks at: those created in the last `days` days
InPeriod(table, days, t) == {l \in table : l.created_at >= t - days * Day}

RECURSIVE SumCounts(_, _)
SumCounts(breakdown, cs) ==
  IF cs = {} THEN 0
  ELSE LET c == CHOOSE x \in cs : TRUE
       IN  breakdown[c] + SumCounts(breakdown, cs \ {c})

\* C27 as claimed: the role breakdown and the company breakdown each assign
\* every lead of the period to one category.
C27_EveryLeadBucketed ==
  (last.op = "get_dashboard_analytics" /\ last.code = 200)
    => LET period == InPeriod(leads, last.args.days, now)
       IN  /\ SumCounts(last.body.by_role, DOMAIN last.body.by_role) = Cardinality(period)
           /\ SumCounts(last.body.by_company_type, DOMAIN last.body.by_company_type)
                = Cardinality(period)

\* C27 amended: the role breakdown counts each lead of the period that has a
\* non-empty role under the first category, in the order founder, cto,
\* recruiter, management, engineering, that has a keyword occurring in the
\* role whatever the case, else under other; the company breakdown does the
\* same with the non-empty companies in the order startup, corporate,
\* consulting, education; leads without a role (company) are in no category
\* of that breakdown. A role with "manager" or "director" counts as
\* management, and one with "engineer" or "developer" as engineering, unless
\* a keyword of an earlier category occurs in it.
C27_BucketsByPrecedence ==
  (last.op = "get_dashboard_analytics" /\ last.code = 200)
    => LET period == InPeriod(leads, last.args.days, now)
           roles == {l \in period : l.role # None /\ l.role[1] # <<>>}
           companies == {l \in period : l.company # None /\ l.company[1] # <<>>}
       IN  /\ \A c \in {RoleOrder[k] : k \in 1..Len(RoleOrder)} \cup {"other"} :
                CountOf(last.body.by_role, c)
                  = Cardinality({l \in roles :
                                   FirstCategory(l.role[1], RoleOrder, RoleKeywords) = c})
           /\ \A c \in {CompanyOrder[k] : k \in 1..Len(CompanyOrder)} \cup {"other"} :
                CountOf(last.body.by_company_type, c)
                  = Cardinality({l \in companies :
                                   FirstCategory(l.company[1], CompanyOrder, CompanyKeywords) = c})
           /\ DOMAIN last.body.by_role \subseteq {RoleOrder[k] : k \in 1..Len(RoleOrder)} \cup {"other"}
           /\ DOMAIN last.body.by_company_type
                \subseteq {CompanyOrder[k] : k \in 1..Len(CompanyOrder)} \cup {"other"}
           /\ \A l \in roles :
                (/\ Occurs(l.role[1], RoleKeywords, 4)
                 /\ \A j \in 1..3 : ~Occurs(l.role[1], RoleKeywords, j))
                => role_category(l.role[1]) = "management"
           /\ \A l \in roles :
                (/\ Occurs(l.role[1], RoleKeywords, 5)
                 /\ \A j \in 1..4 : ~Occurs(l.role[1], RoleKeywords, j))
                => role_category(l.role[1]) = "engineering"

\* the dashboard has bucketed a role with "director" under cto, whose keyword
\* occurs in it, and a role with "manager" under management
C27_Witness ==
  /\ last.op = "get_dashboard_analytics" /\ last.code = 200
  /\ \E l \in leads : l.role = Some(Roles.director)
  /\ \E l \in leads : l.role = Some(Roles.sales_manager)
  /\ CountOf(last.body.by_role, "cto") = 1
  /\ CountOf(last.body.by_role, "management") = 1
  /\ CountOf(last.body.by_company_type, "startup") = 2

\* the requests of tasks that are suspended at the await at
TasksAt(tasks, at) == {task \in BagToSet(tasks) : task.op = "request_cv" /\ task.pc = at}

\* the task leaves the bag in this step, or one copy of it does
Leaves(task) == CopiesIn(task, inflight') < CopiesIn(task, inflight)

\* the task enters the bag in this step
Enters(task) == CopiesIn(task, inflight') > CopiesIn(task, inflight)

\* C28: in the intake path the CV email is sent only after the lead has been
\* persisted. A request whose INSERT fails is answered 500, and that step sends
\* no email and stores no lead, so a lead with the generated identifier exists
\* afterwards only if it was stored before. A request comes to wait for
\* send_cv_email only in the step in which its own INSERT stored its lead, and
\* an email is appended to the outbox only in a step that ends a request
\* waiting for send_cv_email, addressed to that request's email.
C28_EmailOnlyAfterPersisted ==
  [][ /\ \A task \in TasksAt(inflight, "create_lead") :
           (Leaves(task) /\ ~Enters([task EXCEPT !.pc = "send_cv_email"]))
             => /\ last'.op = "request_cv" /\ last'.code = 500
                /\ outbox' = outbox
                /\ leads' = leads
      /\ (last'.op = "request_cv" /\ last'.code = 500)
           => (outbox' = outbox /\ leads' = leads)
      /\ \A task \in TasksAt(inflight', "send_cv_email") :
           Enters(task)
             => /\ Leaves([task EXCEPT !.pc = "create_lead"])
                /\ ~\E l \in leads : l.id = task.request_id
                /\ \E l \in leads' : /\ l.id = task.request_id
                                     /\ l.email = task.cv.email
                                     /\ leads' = leads \cup {l}
                /\ outbox' = outbox
      /\ outbox' # outbox
           => \E task \in TasksAt(inflight, "send_cv_email") :
                /\ Leaves(task)
                /\ Len(outbox') = Len(outbox) + 1
                /\ outbox'[Len(outbox')].to = task.cv.email
                /\ last'.op = "request_cv" /\ last'.code = 200
    ]_vars

\* C28 witness: an INSERT has just failed and was answered 500 after another
\* request's email went out, and every email sent has its lead stored
C28_Witness ==
  /\ last.op = "request_cv" /\ last.code = 500
  /\ Len(outbox) >= 1
  /\ Cardinality(leads) >= Len(outbox)

\* a submission that breaks the honeypot rule, a rule of the validator or the
\* consent rule while its name, email and phone pass the schema
RefusedSubmission(sub) ==
  /\ SchemaErrors(sub) \subseteq {"consent"}
  /\ \/ sub.website # <<>>
     \/ ~sub.consent
     \/ IntakeChecks(CVRequest([sub EXCEPT !.consent = TRUE])) # "ok"

\* C29: a submission refused for the honeypot, by the validator or for missing
\* consent still consumes the quota of its client IP: unless it is itself
\* answered 429 the limiter counts it, so that after three of them in the
\* limiter's window the next submission of that IP, a valid one included, is
\* answered 429 and creates no lead.
C29_RefusalsConsumeQuota ==
  [][\A ip \in LifeIPs :
       (IsIntake(last') /\ last'.args.ip = ip)
         => /\ (RefusedSubmission(last'.args.sub) /\ last'.code # 429)
                 => /\ Counter(limiter', ip, now) = Counter(limiter, ip, now) + 1
                    /\ leads' = leads
            /\ (Counter(limiter, ip, now) >= RateLimit /\ last'.code # 422)
                 => (last'.code = 429 /\ leads' = leads)
    ]_vars

\* C29, as far as it holds: a submission refused with 400 (honeypot or
\* validator) is counted by the limiter like an accepted one, while a
\* submission refused with 422 by the schema (a missing consent included) is
\* not counted; once three requests of an IP were counted in the limiter's
\* current window every further submission of that IP that passes the schema,
\* a valid one included, is answered 429 and stores and sends nothing.
C29_RefusalsConsumeTheWindow ==
  [][\A ip \in LifeIPs :
       (IsIntake(last') /\ last'.args.ip = ip)
         => /\ last'.code = 400
                 => /\ Counter(limiter, ip, now) < RateLimit
                    /\ Counter(limiter', ip, now) = Counter(limiter, ip, now) + 1
                    /\ leads' = leads /\ outbox' = outbox
            /\ last'.code = 422 => limiter' = limiter
            /\ (Counter(limiter, ip, now) >= RateLimit /\ last'.code # 422)
                 => (last'.code = 429 /\ leads' = leads /\ outbox' = outbox)
    ]_vars

\* C29, the case that holds: the valid submission is answered 429 although no
\* lead was ever stored, the three requests counted in the window having all
\* been refused with 400
C29_Witness ==
  /\ IsIntake(last) /\ last.code = 429 /\ last.args.sub = ValidSub
  /\ leads = {} /\ outbox = <<>>
  /\ Counter(limiter, last.args.ip, now) > RateLimit

\* C30: every stored lead satisfies consent_timestamp <= created_at <=
\* updated_at, and across every step, an admin update included, the updated_at
\* of a lead that stays stored does not decrease (and its consent_timestamp
\* and created_at stay as they are).
C30_TimestampsOrdered ==
  [][/\ \A l \in leads' :
          /\ l.consent_timestamp <= l.created_at
          /\ l.created_at <= l.updated_at
          /\ l.updated_at <= now'
     /\ \A l \in leads, m \in leads' :
          l.id = m.id
            => /\ m.updated_at >= l.updated_at
               /\ m.created_at = l.created_at
               /\ m.consent_timestamp = l.consent_timestamp
    ]_vars

\* C30 witness: an admin update that supplies a field has been served for a
\* stored lead at a clock reading later than the lead's creation
C30_Witness ==
  /\ last.op = "update_lead" /\ last.code \in {200, 500}
  /\ update_fields(last.args.lead_update) # {}
  /\ \E l \in leads : /\ l.id = last.args.lead_id
                       /\ l.created_at < now

====
